---- MODULE Spec2Model ----
(***************************************************************************)
(* A model of the useLocalStorage hook (src/src/useLocalStorage.ts): the   *)
(* localStorage entries, the shared jotai atom, the per-hook React state   *)
(* (error, isLoading, debounce timer), the promise jobs of readValue and   *)
(* setValue, and the two window events that trigger a debounced re-read.   *)
(***************************************************************************)
EXTENDS Integers, Sequences, FiniteSets, TLC

(***************************************************************************)
(* JavaScript values.  A value is a record of one shape:                   *)
(*   kind  : "undefined" | "null" | "bool" | "num" | "nan" | "str" |       *)
(*           "arr" | "obj" | "pair"                                        *)
(*   str   : the tokens of a scalar (digits of a number, characters of a   *)
(*           string, the name of an object member)                         *)
(*   items : the elements of an array, the members (pairs) of an object,   *)
(*           the one value of a pair                                       *)
(***************************************************************************)
JsVal(kind, str, items) == [kind |-> kind, str |-> str, items |-> items]

Undefined == JsVal("undefined", <<>>, <<>>)

\* an object that has itself as a member
Circular == JsVal("circular", <<>>, <<>>)

Null == JsVal("null", <<>>, <<>>)

NaN == JsVal("nan", <<>>, <<>>)

Bool(b) == JsVal("bool", <<b>>, <<>>)

Num(n) == JsVal("num", <<n>>, <<>>)

Str(chars) == JsVal("str", chars, <<>>)

Arr(items) == JsVal("arr", <<>>, items)

Pair(name, v) == JsVal("pair", <<name>>, <<v>>)

Obj(pairs) == JsVal("obj", <<>>, pairs)

\* The TestBlob<V> of the test suite: { testValue: v }.
Blob(v) == Obj(<<Pair("testValue", v)>>)

(***************************************************************************)
(* Stored text is a sequence of tokens: a keyword ("null", "true",         *)
(* "false"), a number ("0", "1", ...), a punctuation mark, or a character  *)
(* of a string. DQ is the double quote that delimits a JSON string.        *)
(***************************************************************************)
DQ == "\""

Keywords == {"null", "true", "false"}

Numerals == {"0", "1", "2", "42"}

Punctuation == {DQ, "[", "]", "{", "}", ",", ":"}

\* What getItem returns for a key without entry (null).
NoItem == <<"<no item>">>

\* what getItem stands for when localStorage throws instead of returning
Denied == <<"<SecurityError>">>

\* JSON.stringify of an object that contains itself throws a TypeError
CircularText == <<"<TypeError>">>

\* JSON.stringify(undefined) is the value undefined, not a string.
NoText == <<"<undefined>">>

RECURSIVE JoinWith(_, _)
\* texts joined by a separator token, as JSON.stringify joins elements
JoinWith(texts, sep) ==
  IF texts = <<>> THEN <<>>
  ELSE IF Len(texts) = 1 THEN Head(texts)
  ELSE Head(texts) \o <<sep>> \o JoinWith(Tail(texts), sep)

\* the characters JSON.stringify writes behind a backslash
Escaped == {DQ, "\\"}

\* mutant: the characters of a string are written as they are
Quote_Unescaped(chars) == chars

RECURSIVE Quote(_)
\* the characters of a string as JSON.stringify writes them between the quotes
Quote(chars) ==
  IF chars = <<>> THEN <<>>
  ELSE (IF Head(chars) \in Escaped THEN <<"\\", Head(chars)>> ELSE <<Head(chars)>>)
         \o Quote(Tail(chars))

RECURSIVE JsonStringify(_)
\* JSON.stringify(v): NoText for undefined; NaN becomes null; an undefined
\* array element becomes null; an undefined object member is dropped.
JsonStringify(v) ==
  CASE v.kind = "undefined" -> NoText
    [] v.kind = "circular" -> CircularText
    [] v.kind = "null" -> <<"null">>
    [] v.kind = "nan" -> <<"null">>
    [] v.kind = "bool" -> v.str
    [] v.kind = "num" -> v.str
    [] v.kind = "str" -> <<DQ>> \o Quote(v.str) \o <<DQ>>
    [] v.kind = "arr" ->
         LET elem(i) == IF v.items[i].kind = "undefined"
                        THEN <<"null">> ELSE JsonStringify(v.items[i])
         IN <<"[">> \o JoinWith([i \in 1..Len(v.items) |-> elem(i)], ",") \o <<"]">>
    [] v.kind = "obj" ->
         LET kept == SelectSeq(v.items, LAMBDA p : p.items[1].kind # "undefined")
             member(i) == <<DQ>> \o kept[i].str \o <<DQ, ":">>
                            \o JsonStringify(kept[i].items[1])
         IN <<"{">> \o JoinWith([i \in 1..Len(kept) |-> member(i)], ",") \o <<"}">>

(***************************************************************************)
(* JSON.parse as a recursive-descent parser over the tokens. A parse step  *)
(* returns [ok, val, next]: whether a value starts at position i, the      *)
(* value, and the position after it.                                       *)
(***************************************************************************)
ParseFail == [ok |-> FALSE, val |-> Undefined, next |-> 0]

Parsed(v, n) == [ok |-> TRUE, val |-> v, next |-> n]

RECURSIVE ClosingQuote(_, _)
\* position of the first DQ at or after i, 0 when the string is unterminated
ClosingQuote(t, i) ==
  IF i > Len(t) THEN 0
  ELSE IF t[i] = DQ THEN i
  ELSE IF t[i] = "\\" THEN ClosingQuote(t, i + 2)
  ELSE ClosingQuote(t, i + 1)

RECURSIVE WellEscaped(_)
\* whether every backslash between the quotes starts an escape JSON.parse knows
WellEscaped(chars) ==
  IF chars = <<>> THEN TRUE
  ELSE IF Head(chars) # "\\" THEN WellEscaped(Tail(chars))
  ELSE Len(chars) >= 2 /\ chars[2] \in Escaped /\ WellEscaped(Tail(Tail(chars)))

RECURSIVE Unquote(_)
\* the characters a well-escaped JSON string stands for
Unquote(chars) ==
  IF chars = <<>> THEN <<>>
  ELSE IF Head(chars) = "\\" THEN <<chars[2]>> \o Unquote(Tail(Tail(chars)))
  ELSE <<Head(chars)>> \o Unquote(Tail(chars))

RECURSIVE ParseValue(_, _)
RECURSIVE ParseElements(_, _, _)
RECURSIVE ParseMembers(_, _, _)

\* elements of an array after "[" or ",": value ("," value)* "]"
ParseElements(t, i, acc) ==
  LET e == ParseValue(t, i) IN
  IF ~e.ok \/ e.next > Len(t) THEN ParseFail
  ELSE IF t[e.next] = "]" THEN Parsed(Arr(Append(acc, e.val)), e.next + 1)
  ELSE IF t[e.next] = "," THEN ParseElements(t, e.next + 1, Append(acc, e.val))
  ELSE ParseFail

\* members of an object after "{" or ",": string ":" value ("," member)* "}"
ParseMembers(t, i, acc) ==
  IF i > Len(t) \/ t[i] # DQ THEN ParseFail
  ELSE
    LET q == ClosingQuote(t, i + 1) IN
    IF q # i + 2 \/ q + 1 > Len(t) \/ t[q + 1] # ":" THEN ParseFail
    ELSE
      LET m == ParseValue(t, q + 2) IN
      IF ~m.ok \/ m.next > Len(t) THEN ParseFail
      ELSE
        LET members == Append(acc, Pair(t[i + 1], m.val)) IN
        IF t[m.next] = "}" THEN Parsed(Obj(members), m.next + 1)
        ELSE IF t[m.next] = "," THEN ParseMembers(t, m.next + 1, members)
        ELSE ParseFail

ParseValue(t, i) ==
  IF i > Len(t) THEN ParseFail
  ELSE IF t[i] = "null" THEN Parsed(Null, i + 1)
  ELSE IF t[i] \in {"true", "false"} THEN Parsed(Bool(t[i]), i + 1)
  ELSE IF t[i] \in Numerals THEN Parsed(Num(t[i]), i + 1)
  ELSE IF t[i] = DQ THEN
    LET q == ClosingQuote(t, i + 1) IN
    IF q = 0 \/ ~WellEscaped(SubSeq(t, i + 1, q - 1)) THEN ParseFail
    ELSE Parsed(Str(Unquote(SubSeq(t, i + 1, q - 1))), q + 1)
  ELSE IF t[i] = "[" THEN
    IF i + 1 <= Len(t) /\ t[i + 1] = "]" THEN Parsed(Arr(<<>>), i + 2)
    ELSE ParseElements(t, i + 1, <<>>)
  ELSE IF t[i] = "{" THEN
    IF i + 1 <= Len(t) /\ t[i + 1] = "}" THEN Parsed(Obj(<<>>), i + 2)
    ELSE ParseMembers(t, i + 1, <<>>)
  ELSE ParseFail

(***************************************************************************)
(* The outcome of a codec call: [ok, val, text, err]. ok = FALSE is a      *)
(* throw (or a rejected promise) and err the message of the thrown Error;  *)
(* otherwise val is the value deserialize returned, or text the string     *)
(* serialize returned.                                                     *)
(***************************************************************************)
RetVal(v) == [ok |-> TRUE, val |-> v, text |-> <<>>, err |-> <<>>]

RetText(t) == [ok |-> TRUE, val |-> Undefined, text |-> t, err |-> <<>>]

Thrown(msg) == [ok |-> FALSE, val |-> Undefined, text |-> <<>>, err |-> <<msg>>]

\* JSON.parse(text): the value, or a SyntaxError when the text is no JSON
JsonParse(t) ==
  LET r == ParseValue(t, 1) IN
  IF r.ok /\ r.next = Len(t) + 1 THEN RetVal(r.val) ELSE Thrown("SyntaxError")

Reverse(seq) == [i \in 1..Len(seq) |-> seq[Len(seq) + 1 - i]]

(***************************************************************************)
(* The serializers a hook is given. "json" is the default JsonSerializer   *)
(* (synchronous); "asyncRev" is the asyncSerializer of the test suite:     *)
(* its functions are async, wait for a timer, and store the JSON text      *)
(* reversed.                                                               *)
(***************************************************************************)
Codecs == {"json", "asyncRev"}

\* whether the codec's functions return a promise that settles in a later task
IsAsync(c) == c = "asyncRev"

\* serializer.serialize(value)
Serialize(c, v) ==
  IF JsonStringify(v) = CircularText
  THEN Thrown("TypeError: Converting circular structure to JSON")
  ELSE IF c = "json" THEN RetText(JsonStringify(v))
  ELSE IF JsonStringify(v) = NoText
       THEN Thrown("TypeError: Cannot read properties of undefined")
       ELSE RetText(Reverse(JsonStringify(v)))

\* serializer.deserialize(item)
Deserialize(c, t) ==
  IF c = "json" THEN JsonParse(t) ELSE JsonParse(Reverse(t))

\* isEqual(a, b): JSON.stringify(a) === JSON.stringify(b)
isEqual(a, b) == JsonStringify(a) = JsonStringify(b)

(***************************************************************************)
(* LocalStorageError(message, cause). readValue passes the object          *)
(* { cause: error } as the cause, setValue passes the caught error itself. *)
(* A cause is the sequence of property names under which the original      *)
(* message is found, followed by that message.                             *)
(***************************************************************************)
NoError == <<>>

\* mutant: the catch blocks rethrow what they caught
LocalStorageError_Rethrown(message, key, cause) == cause

LocalStorageError(message, key, cause) == <<"LocalStorageError", message, key>> \o cause

\* error.cause of a LocalStorageError
CauseOf(e) == SubSeq(e, 4, Len(e))

\* error.cause.message: defined when the cause is itself an Error
CauseMessage(e) == IF Len(CauseOf(e)) = 1 THEN CauseOf(e) ELSE <<>>

\* what window.localStorage throws when access to it is denied
SecurityError == <<"SecurityError: The operation is insecure">>

(***************************************************************************)
(* The bounded inputs: the keys hooks are given, the hook instances, the   *)
(* values callers pass, and the texts other code may leave in the store.   *)
(***************************************************************************)
Keys == {"A", "B"}

Observers == {"o1", "o2"}

\* values passed to setValue (Undefined asks for the removal of the entry)
SetValues == {Undefined, Str(<<"a", "b">>), Null, Circular}

\* options.initialValue (Undefined when the option is not given)
InitialValues == {Undefined, Str(<<"d">>)}

\* the options each instance is rendered with: the second one is rendered
\* without initialValue
MountValues(o) == IF o = "o1" THEN InitialValues ELSE {Undefined}

\* texts other code or another tab writes to localStorage
ForeignTexts == {<<DQ, "a", "b", DQ>>, <<"invalid-json">>}

\* what localStorage holds for key "A" when the page starts; key "B" starts
\* without an item
InitialItems == {<<DQ, "a", "b", DQ>>, <<"invalid-json">>}

\* environment steps (calls of the hook's consumer, foreign writes, events)
\* explored in one behaviour
MaxSteps == 3

VARIABLES
  hasWindow,    \* typeof window !== "undefined"
  denied,       \* window.localStorage throws on every access
  rejected,     \* the error of the setValue promise that was last rejected
  store,        \* window.localStorage: key -> text, NoItem when absent
  atom,         \* localStorageAtom: undefined, or a record of entries
  mounted,      \* whether the hook instance is rendered
  key,          \* the key of the instance's last render
  serializer,   \* the memoized serializer of the instance
  setValueRef,  \* which of the setValue functions the instance has created
                \* its last render returned (useCallback), counted from 0
  initialValue, \* options.initialValue of the instance
  error,        \* useState: error
  isLoading,    \* useState: isLoading
  burst,        \* history: the notifications the handler of the instance got
  cause,        \* history: who dispatched the event that last set the timer
                \* since its timer was last started from rest
  timer,        \* the timer of debounceTimeoutRef: "none", "set", or "due"
                \* once its 50 ms are over
  timeouts,     \* how many timeouts of the instance's handlers the window
                \* holds: set by setTimeout, neither cleared nor run
  jobs,         \* the microtask queue: promise reactions, first in first out
  pending,      \* calls of an asynchronous codec that have not settled
  steps,        \* environment steps taken
  lastSet,      \* history: per key, the setValue call that last resolved
  sample        \* a value handed to JsonSerializer directly, with the text
                \* serialize made of it and the value deserialize made of that

hook == <<mounted, key, serializer, setValueRef, initialValue, error, isLoading,
         timer, timeouts, burst, cause>>

vars == <<hasWindow, denied, rejected, store, atom, hook, jobs, pending, steps, lastSet,
         sample>>

\* an atom entry that was never written (the property is missing)
NoEntry == JsVal("<missing>", <<>>, <<>>)

\* atom<Record<string, unknown> | undefined>(undefined)
AtomUndefined == [defined |-> FALSE, map |-> [k \in Keys |-> NoEntry]]

\* prev?.[key]
AtomGet(a, k) == IF a.defined /\ a.map[k] # NoEntry THEN a.map[k] ELSE Undefined

\* mutant: an updater that builds the record from the one key it was given
updateValue_DropsOthers(prev, k, newValue) ==
  IF isEqual(AtomGet(prev, k), newValue)
  THEN [defined |-> TRUE, map |-> prev.map]
  ELSE [defined |-> TRUE,
        map |-> [kk \in Keys |-> IF kk = k THEN newValue ELSE NoEntry]]

\* the updater updateValue hands to setStoredValue
updateValue(prev, k, newValue) ==
  IF isEqual(AtomGet(prev, k), newValue)
  THEN [defined |-> TRUE, map |-> prev.map]
  ELSE [defined |-> TRUE, map |-> [prev.map EXCEPT ![k] = newValue]]

\* mutant: the returned value without "?? options?.initialValue"
Coalesce_Left(a, b) == a

\* mutant: the returned value with "||" in place of "??"
Coalesce_Or(a, b) ==
  IF \/ a.kind \in {"undefined", "null", "nan"}
     \/ a = JsVal("str", <<>>, <<>>)
     \/ a = JsVal("num", <<"0">>, <<>>)
     \/ a = JsVal("bool", <<"false">>, <<>>)
  THEN b ELSE a

\* a ?? b
Coalesce(a, b) == IF a.kind \in {"undefined", "null"} THEN b ELSE a

\* mutant: the returned value without the "error ? undefined :" guard
ExposedValue_IgnoringError(o) ==
  Coalesce(AtomGet(atom, key[o]), initialValue[o])

\* the value the hook returns
ExposedValue(o) ==
  IF error[o] # NoError THEN Undefined
  ELSE Coalesce(AtomGet(atom, key[o]), initialValue[o])

\* handleStorageChange is attached to "storage" and "local-storage"
Listening(o) == mounted[o] /\ hasWindow

\* lastSet[k] when no setValue on k has resolved, or when the store entry was
\* written, or an event dispatched, by someone else since it did
NoCall ==
  [set |-> FALSE, val |-> Undefined, codec |-> "json", clean |-> TRUE,
   rapid |-> FALSE]

\* lastSet[k] once setValue(v) of a hook with serializer c has resolved on k
\* ("rapid" when the call was made while an earlier one on k had not resolved)
Resolved(v, c) ==
  [set |-> TRUE, val |-> v, codec |-> c, clean |-> TRUE, rapid |-> FALSE]

\* no value has been handed to the serializer
NoSample == [stage |-> "none", v |-> Undefined, out |-> RetVal(Undefined)]

\* the page before the first render
Loaded ==
  /\ hasWindow \in BOOLEAN
  /\ denied \in IF hasWindow THEN BOOLEAN ELSE {FALSE}
  /\ rejected = NoError
  /\ store \in IF hasWindow /\ ~denied
                THEN {[k \in Keys |-> IF k = "A" THEN i ELSE NoItem] : i \in InitialItems}
                ELSE {[k \in Keys |-> NoItem]}
  /\ atom = AtomUndefined
  /\ mounted = [o \in Observers |-> FALSE]
  /\ key = [o \in Observers |-> "A"]
  /\ serializer = [o \in Observers |-> "json"]
  /\ setValueRef = [o \in Observers |-> 0]
  /\ initialValue = [o \in Observers |-> Undefined]
  /\ error = [o \in Observers |-> NoError]
  /\ isLoading = [o \in Observers |-> TRUE]
  /\ timer = [o \in Observers |-> "none"]
  /\ timeouts = [o \in Observers |-> 0]
  /\ burst = [o \in Observers |-> 0]
  /\ cause = [o \in Observers |-> "none"]
  /\ jobs = <<>>
  /\ pending = {}
  /\ steps = 0
  /\ lastSet = [k \in Keys |-> NoCall]

Init == Loaded /\ sample = NoSample

(***************************************************************************)
(* readValue and the promise chain readValueFromStorage hangs on it. A     *)
(* read is a record of the hook that started it, the key and serializer    *)
(* its closure captured, the item getItem returned, and the reactions      *)
(* still to run: "hop" (a reaction that passes the result on), "then",     *)
(* "catch", "finally". The continuation of a setValue call is a record of  *)
(* the same shape: the text serialize returned, the value it was given,    *)
(* and the one reaction "write"; "call" tells the calls of setValue apart  *)
(* (0 in a read), "behind" that an earlier call on the key was unresolved. *)
(***************************************************************************)
Job(op, o, k, c, text, val, stages) ==
  [op |-> op, o |-> o, key |-> k, codec |-> c, text |-> text, val |-> val,
   stages |-> stages, live |-> TRUE, call |-> 0, by |-> "effect",
   behind |-> FALSE, overtaken |-> FALSE]

\* mutant: readValue without the "typeof window" guard, so that reading
\* window.localStorage throws where there is no window
getItem_Unguarded(k) == IF ~hasWindow \/ denied THEN Denied ELSE store[k]

\* window.localStorage.getItem(key), undefined without a window
getItem(k) == IF ~hasWindow THEN NoItem ELSE IF denied THEN Denied ELSE store[k]

\* the result readValue's promise settles with
readResult(c, item) ==
  IF item = NoItem THEN RetVal(Undefined)
  ELSE IF item = Denied THEN Thrown(SecurityError[1])
  ELSE Deserialize(c, item)

\* mutant: setIsLoading(false) in the then-reaction's chain only
readStages_FinallyAfterThenOnly(c, item) ==
  IF item = NoItem THEN <<"then", "hop", "finally">>
  ELSE IF Deserialize(c, item).ok THEN <<"hop", "then", "hop", "finally">>
  ELSE <<"hop", "catch">>

\* the reactions of a read whose deserialize has returned or thrown
readStages(c, item) ==
  IF item = NoItem THEN <<"then", "hop", "finally">>
  ELSE IF readResult(c, item).ok THEN <<"hop", "then", "hop", "finally">>
  ELSE <<"hop", "catch", "finally">>

\* readValueFromStorage(): the synchronous part of readValue
\* ("by" is "effect" when the effect calls it, and who set the timer when
\* the timer calls it)
StartRead(o, k, c, by) ==
  LET item == getItem(k)
      read(stages) == [Job("read", o, k, c, item, Undefined, stages) EXCEPT !.by = by]
  IN
  IF item \notin {NoItem, Denied} /\ IsAsync(c)
  THEN /\ pending' = pending \cup {read(<<>>)}
       /\ jobs' = jobs
  ELSE /\ jobs' = Append(jobs, read(readStages(c, item)))
       /\ pending' = pending

\* mutant: the handlers are attached to no event
Dispatched_Unheard == timer

\* mutant: handleStorageChange without clearTimeout and without a new timer
\* while one is pending, so that the timer keeps its first deadline
Dispatched_KeepsDeadline ==
  [o \in Observers |->
     IF Listening(o) /\ timer[o] = "none" THEN "set" ELSE timer[o]]

\* mutant: handleStorageChange clears a pending timer and sets none in its
\* place
Dispatched_CancelsPending ==
  [o \in Observers |->
     IF Listening(o) THEN (IF timer[o] = "none" THEN "set" ELSE "none")
     ELSE timer[o]]

\* dispatchEvent: every attached handleStorageChange restarts its timer
Dispatched == [o \in Observers |-> IF Listening(o) THEN "set" ELSE timer[o]]

\* if (debounceTimeoutRef.current) clearTimeout(debounceTimeoutRef.current)
Cleared(o) ==
  [timeouts EXCEPT ![o] = IF timer[o] # "none" THEN @ - 1 ELSE @]

\* mutant: handleStorageChange without its clearTimeout
Rescheduled_Uncleared ==
  [o \in Observers |-> IF Listening(o) THEN timeouts[o] + 1 ELSE timeouts[o]]

\* the timeouts after every attached handleStorageChange has run:
\* clearTimeout of the pending one, then setTimeout
Rescheduled ==
  [o \in Observers |-> IF Listening(o) THEN Cleared(o)[o] + 1 ELSE timeouts[o]]

\* History: the event reaches every attached handler; src is the key of the
\* setValue call that dispatched it, or "other" for an event of other code.
Caused(src) == [o \in Observers |-> IF Listening(o) THEN src ELSE cause[o]]

\* History: a notification that finds the timer at rest starts a burst, one
\* that finds it pending adds to the burst.
Counted ==
  [o \in Observers |->
     IF Listening(o) THEN (IF timer[o] = "none" THEN 1 ELSE burst[o] + 1)
     ELSE burst[o]]

Idle == jobs = <<>>

EnvStep == steps < MaxSteps /\ steps' = steps + 1

(***************************************************************************)
(* The consumer's steps: rendering a hook, changing its key, unmounting    *)
(* it, calling the setValue it returned.                                   *)
(***************************************************************************)

\* Hook instances are interchangeable: a component that is rendered takes the
\* first instance that is not in use.
FirstFree(o) == ~mounted[o] /\ (o = "o2" => mounted["o1"])

\* first render and first run of the effect
Mount(o, k, c, d) ==
  /\ Idle /\ EnvStep
  /\ FirstFree(o)
  /\ mounted' = [mounted EXCEPT ![o] = TRUE]
  /\ key' = [key EXCEPT ![o] = k]
  /\ serializer' = [serializer EXCEPT ![o] = c]
  /\ initialValue' = [initialValue EXCEPT ![o] = d]
  /\ setValueRef' = [setValueRef EXCEPT ![o] = 0]
  /\ error' = [error EXCEPT ![o] = NoError]
  /\ isLoading' = [isLoading EXCEPT ![o] = TRUE]
  /\ timer' = [timer EXCEPT ![o] = "none"]
  /\ timeouts' = [timeouts EXCEPT ![o] = 0]
  /\ burst' = [burst EXCEPT ![o] = 0]
  /\ cause' = [cause EXCEPT ![o] = "none"]
  /\ StartRead(o, k, c, "effect")
  /\ UNCHANGED <<sample, hasWindow, denied, rejected, store, atom, lastSet>>

\* mutant: the returned value keeps reading the entry of the first key
ChangeKey_KeepsKey(o, k) ==
  /\ Idle /\ EnvStep
  /\ mounted[o] /\ k # key[o]
  /\ setValueRef' = [setValueRef EXCEPT ![o] = @ + 1]
  /\ timer' = [timer EXCEPT ![o] = "none"]
  /\ timeouts' = Cleared(o)
  /\ burst' = [burst EXCEPT ![o] = 0]
  /\ cause' = [cause EXCEPT ![o] = "none"]
  /\ StartRead(o, k, serializer[o], "effect")
  /\ UNCHANGED <<sample, hasWindow, denied, rejected, store, atom, mounted, key, serializer, initialValue,
                 error, isLoading, lastSet>>

\* mutant: a cleanup without clearTimeout
ChangeKey_KeepsTimer(o, k) ==
  /\ Idle /\ EnvStep
  /\ mounted[o] /\ k # key[o]
  /\ key' = [key EXCEPT ![o] = k]
  /\ setValueRef' = [setValueRef EXCEPT ![o] = @ + 1]
  /\ StartRead(o, k, serializer[o], "effect")
  /\ UNCHANGED <<sample, hasWindow, denied, rejected, store, atom, mounted, serializer,
                 initialValue, error, isLoading, lastSet, timer, timeouts, burst, cause>>

\* a render with another key: the effect's cleanup, then the effect again
ChangeKey(o, k) ==
  /\ Idle /\ EnvStep
  /\ mounted[o] /\ k # key[o]
  /\ key' = [key EXCEPT ![o] = k]
  /\ setValueRef' = [setValueRef EXCEPT ![o] = @ + 1]
  /\ timer' = [timer EXCEPT ![o] = "none"]
  /\ timeouts' = Cleared(o)
  /\ burst' = [burst EXCEPT ![o] = 0]
  /\ cause' = [cause EXCEPT ![o] = "none"]
  /\ StartRead(o, k, serializer[o], "effect")
  /\ UNCHANGED <<sample, hasWindow, denied, rejected, store, atom, mounted, serializer, initialValue,
                 error, isLoading, lastSet>>

\* a render with the same key and the same options.serializer (the same
\* object, or none): no dependency of useMemo, useEffect or useCallback
\* has changed
Rerender(o) ==
  /\ Idle /\ EnvStep
  /\ mounted[o]
  /\ UNCHANGED <<sample, hasWindow, denied, rejected, store, atom, hook, jobs, pending,
                 lastSet>>

\* mutant: useCallback with the dependencies [key] only
ChangeSerializer_KeepsCallback(o, c) ==
  /\ Idle /\ EnvStep
  /\ mounted[o]
  /\ c # "json" \/ serializer[o] # "json"
  /\ serializer' = [serializer EXCEPT ![o] = c]
  /\ timer' = [timer EXCEPT ![o] = "none"]
  /\ timeouts' = Cleared(o)
  /\ burst' = [burst EXCEPT ![o] = 0]
  /\ cause' = [cause EXCEPT ![o] = "none"]
  /\ StartRead(o, key[o], c, "effect")
  /\ UNCHANGED <<sample, hasWindow, denied, rejected, store, atom, mounted, key,
                 setValueRef, initialValue, error, isLoading, lastSet>>

\* a render with the same key and another options.serializer object: one
\* written inline is a new object at every render even when it behaves as
\* the one before ("json" stands for the option left out, which useMemo
\* answers with the JsonSerializer it already has). useMemo returns the new
\* serializer, useCallback a new setValue, and the effect runs again.
ChangeSerializer(o, c) ==
  /\ Idle /\ EnvStep
  /\ mounted[o]
  /\ c # "json" \/ serializer[o] # "json"
  /\ serializer' = [serializer EXCEPT ![o] = c]
  /\ setValueRef' = [setValueRef EXCEPT ![o] = @ + 1]
  /\ timer' = [timer EXCEPT ![o] = "none"]
  /\ timeouts' = Cleared(o)
  /\ burst' = [burst EXCEPT ![o] = 0]
  /\ cause' = [cause EXCEPT ![o] = "none"]
  /\ StartRead(o, key[o], c, "effect")
  /\ UNCHANGED <<sample, hasWindow, denied, rejected, store, atom, mounted, key,
                 initialValue, error, isLoading, lastSet>>

\* the reads of an unmounted hook still settle, but its state is gone
Orphaned(j, o) == IF j.o = o THEN [j EXCEPT !.live = FALSE] ELSE j

\* mutant: a cleanup that detaches the handlers and leaves the timer running
Unmount_KeepsTimer(o) ==
  /\ Idle /\ EnvStep
  /\ mounted[o]
  /\ mounted' = [mounted EXCEPT ![o] = FALSE]
  /\ key' = key
  /\ serializer' = serializer
  /\ initialValue' = [initialValue EXCEPT ![o] = Undefined]
  /\ setValueRef' = [setValueRef EXCEPT ![o] = 0]
  /\ error' = [error EXCEPT ![o] = NoError]
  /\ isLoading' = [isLoading EXCEPT ![o] = TRUE]
  /\ jobs' = [i \in 1..Len(jobs) |-> Orphaned(jobs[i], o)]
  /\ pending' = {Orphaned(j, o) : j \in pending}
  /\ UNCHANGED <<sample, hasWindow, denied, rejected, store, atom, lastSet, timer, timeouts,
                 burst, cause>>

\* unmount: the effect's cleanup; the instance's state is dropped
Unmount(o) ==
  /\ Idle /\ EnvStep
  /\ mounted[o]
  /\ mounted' = [mounted EXCEPT ![o] = FALSE]
  /\ key' = [key EXCEPT ![o] = "A"]
  /\ serializer' = [serializer EXCEPT ![o] = "json"]
  /\ initialValue' = [initialValue EXCEPT ![o] = Undefined]
  /\ setValueRef' = [setValueRef EXCEPT ![o] = 0]
  /\ error' = [error EXCEPT ![o] = NoError]
  /\ isLoading' = [isLoading EXCEPT ![o] = TRUE]
  /\ timer' = [timer EXCEPT ![o] = "none"]
  /\ timeouts' = Cleared(o)
  /\ burst' = [burst EXCEPT ![o] = 0]
  /\ cause' = [cause EXCEPT ![o] = "none"]
  /\ jobs' = [i \in 1..Len(jobs) |-> Orphaned(jobs[i], o)]
  /\ pending' = {Orphaned(j, o) : j \in pending}
  /\ UNCHANGED <<sample, hasWindow, denied, rejected, store, atom, lastSet>>

\* History: a setValue call on key k that has not reached its setItem when
\* setValue(undefined) is called on k
Overtaken(j, k) ==
  IF j.op = "write" /\ j.key = k THEN [j EXCEPT !.overtaken = TRUE] ELSE j

\* mutant: setValue without the "value === undefined" branch, so that
\* setItem stores the text of undefined
SetValueRemove_StoresText(o) ==
  /\ EnvStep
  /\ mounted[o] /\ ~denied
  /\ IF hasWindow
     THEN /\ store' = [store EXCEPT ![key[o]] = <<"undefined">>]
          /\ timer' = Dispatched
          /\ timeouts' = Rescheduled
          /\ burst' = Counted
          /\ cause' = Caused(key[o])
          /\ lastSet' = [lastSet EXCEPT ![key[o]] = Resolved(Undefined, serializer[o])]
     ELSE UNCHANGED <<store, timer, timeouts, burst, cause, lastSet>>
  /\ UNCHANGED <<sample, hasWindow, denied, rejected, atom, mounted, key, serializer, setValueRef, initialValue,
                 error, isLoading, jobs, pending>>

\* setValue(key, serializer, undefined): removeItem and dispatchEvent run
\* before the call returns
SetValueRemove(o) ==
  /\ EnvStep
  /\ mounted[o] /\ ~denied
  /\ IF hasWindow
     THEN /\ store' = [store EXCEPT ![key[o]] = NoItem]
          /\ timer' = Dispatched
          /\ timeouts' = Rescheduled
          /\ burst' = Counted
          /\ cause' = Caused(key[o])
          /\ lastSet' = [lastSet EXCEPT ![key[o]] = Resolved(Undefined, serializer[o])]
          /\ jobs' = [i \in 1..Len(jobs) |-> Overtaken(jobs[i], key[o])]
          /\ pending' = {Overtaken(j, key[o]) : j \in pending}
     ELSE UNCHANGED <<store, timer, timeouts, burst, cause, lastSet, jobs, pending>>
  /\ UNCHANGED <<sample, hasWindow, denied, rejected, atom, mounted, key, serializer, setValueRef, initialValue,
                 error, isLoading>>

\* setValue(key, serializer, undefined) when removeItem throws: the catch
\* block rejects the call with a LocalStorageError that wraps the error
SetValueRemoveFails(o) ==
  /\ EnvStep
  /\ mounted[o] /\ denied
  /\ rejected' = LocalStorageError("Error setting localStorage key", key[o],
                                   SecurityError)
  /\ UNCHANGED <<sample, hasWindow, denied, store, atom, hook, jobs, pending, lastSet>>

\* a setValue call on key k has not reached its setItem yet
Unresolved(k) ==
  \/ \E i \in 1..Len(jobs) : jobs[i].op = "write" /\ jobs[i].key = k
  \/ \E j \in pending : j.op = "write" /\ j.key = k

\* mutant: setValue with dispatchEvent moved before the await, so that the
\* event leaves while the store still holds the old item
SetValueCall_DispatchesFirst(o, v) ==
  /\ EnvStep
  /\ mounted[o] /\ v # Undefined
  /\ LET c == serializer[o]
         r == Serialize(c, v)
         j == [Job("write", o, key[o], c, r.text, v, <<"write">>)
                 EXCEPT !.call = steps + 1, !.behind = Unresolved(key[o])]
     IN IF ~hasWindow
        THEN UNCHANGED <<jobs, pending, rejected, timer, timeouts, burst, cause>>
        ELSE /\ timer' = Dispatched
             /\ timeouts' = Rescheduled
             /\ burst' = Counted
             /\ cause' = Caused(key[o])
             /\ IF IsAsync(c)
                THEN pending' = pending \cup {j} /\ UNCHANGED <<jobs, rejected>>
                ELSE IF r.ok
                THEN jobs' = Append(jobs, j) /\ UNCHANGED <<pending, rejected>>
                ELSE /\ rejected' = LocalStorageError("Error setting localStorage key",
                                                      key[o], r.err)
                     /\ UNCHANGED <<jobs, pending>>
  /\ UNCHANGED <<sample, hasWindow, denied, store, atom, mounted, key, serializer,
                 setValueRef, initialValue, error, isLoading, lastSet>>

\* setValue(key, serializer, v) up to its await: serialize is called; the
\* write waits for a microtask, or for the promise of an asynchronous codec.
\* When a synchronous serialize throws, the catch block rejects the call.
SetValueCall(o, v) ==
  /\ EnvStep
  /\ mounted[o] /\ v # Undefined
  /\ LET c == serializer[o]
         r == Serialize(c, v)
         j == [Job("write", o, key[o], c, r.text, v, <<"write">>)
                 EXCEPT !.call = steps + 1, !.behind = Unresolved(key[o])]
     IN IF ~hasWindow
        THEN UNCHANGED <<jobs, pending, rejected>>
        ELSE IF IsAsync(c)
        THEN pending' = pending \cup {j} /\ UNCHANGED <<jobs, rejected>>
        ELSE IF r.ok
        THEN jobs' = Append(jobs, j) /\ UNCHANGED <<pending, rejected>>
        ELSE /\ rejected' = LocalStorageError("Error setting localStorage key",
                                              key[o], r.err)
             /\ UNCHANGED <<jobs, pending>>
  /\ UNCHANGED <<sample, hasWindow, denied, store, atom, hook, lastSet>>

(***************************************************************************)
(* The microtasks: the reaction at the head of the queue runs; what is     *)
(* left of its chain goes to the back of the queue.                        *)
(***************************************************************************)
\* History: a read that settles after the call lastSet[k] records, and that
\* either used another serializer or had captured another text of k than the
\* store holds, marks the record as no longer clean when it writes the atom
\* entry of k or the state of a hook that watches k.
Disturbed(j) ==
  [k \in Keys |->
     IF /\ lastSet[k].set
        /\ j.key = k \/ (j.live /\ mounted[j.o] /\ key[j.o] = k)
        /\ j.key # k \/ j.codec # lastSet[k].codec \/ j.text # store[k]
     THEN [lastSet[k] EXCEPT !.clean = FALSE]
     ELSE lastSet[k]]

HeadIs(op, stage) ==
  /\ jobs # <<>>
  /\ Head(jobs).op = op
  /\ Head(Head(jobs).stages) = stage

Requeued ==
  LET j == [Head(jobs) EXCEPT !.stages = Tail(@)] IN
  IF j.stages = <<>> THEN Tail(jobs) ELSE Append(Tail(jobs), j)

\* setError(e), which React ignores once the instance is unmounted
setError(j, e) == IF j.live THEN [error EXCEPT ![j.o] = e] ELSE error

\* a reaction without handler for the promise's outcome
Hop ==
  /\ HeadIs("read", "hop")
  /\ jobs' = Requeued
  /\ UNCHANGED <<sample, hasWindow, denied, rejected, store, atom, hook, pending, steps, lastSet>>

\* mutant: the then-reaction drops the result of a read whose item is no
\* longer the one in the store
Then_DropsStale ==
  /\ HeadIs("read", "then")
  /\ LET j == Head(jobs) IN
       /\ error' = setError(j, NoError)
       /\ atom' = IF j.text = getItem(j.key)
                  THEN updateValue(atom, j.key, readResult(j.codec, j.text).val)
                  ELSE atom
       /\ lastSet' = Disturbed(j)
  /\ jobs' = Requeued
  /\ UNCHANGED <<sample, hasWindow, denied, rejected, store, mounted, key, serializer, setValueRef, initialValue,
                 isLoading, timer, timeouts, burst, cause, pending, steps>>

\* .then((newValue) => { setError(undefined); updateValue(newValue) })
Then ==
  /\ HeadIs("read", "then")
  /\ LET j == Head(jobs) IN
       /\ error' = setError(j, NoError)
       /\ atom' = updateValue(atom, j.key, readResult(j.codec, j.text).val)
       /\ lastSet' = Disturbed(j)
  /\ jobs' = Requeued
  /\ UNCHANGED <<sample, hasWindow, denied, rejected, store, mounted, key, serializer, setValueRef, initialValue,
                 isLoading, timer, timeouts, burst, cause, pending, steps>>

\* mutant: the catch-reaction also removes the item it could not decode
Catch_RemovesItem ==
  /\ HeadIs("read", "catch")
  /\ LET j == Head(jobs)
         thrown == readResult(j.codec, j.text).err
         e == IF j.text = Denied THEN thrown
              ELSE LocalStorageError("Error deserializing localStorage key",
                                     j.key, <<"cause">> \o thrown)
     IN /\ error' = setError(j, e)
        /\ atom' = updateValue(atom, j.key, Undefined)
        /\ lastSet' = Disturbed(j)
        /\ store' = IF hasWindow THEN [store EXCEPT ![j.key] = NoItem] ELSE store
  /\ jobs' = Requeued
  /\ UNCHANGED <<sample, hasWindow, denied, rejected, mounted, key, serializer, setValueRef, initialValue,
                 isLoading, timer, timeouts, burst, cause, pending, steps>>

\* mutant: the catch-reaction without updateValue(undefined)
Catch_KeepsValue ==
  /\ HeadIs("read", "catch")
  /\ LET j == Head(jobs)
         thrown == readResult(j.codec, j.text).err
         e == IF j.text = Denied THEN thrown
              ELSE LocalStorageError("Error deserializing localStorage key",
                                     j.key, <<"cause">> \o thrown)
     IN /\ error' = setError(j, e)
        /\ atom' = atom
        /\ lastSet' = Disturbed(j)
  /\ jobs' = Requeued
  /\ UNCHANGED <<sample, hasWindow, denied, rejected, store, mounted, key, serializer, setValueRef, initialValue,
                 isLoading, timer, timeouts, burst, cause, pending, steps>>

\* .catch((error) => { setError(error); updateValue(undefined) })
Catch ==
  /\ HeadIs("read", "catch")
  /\ LET j == Head(jobs)
         thrown == readResult(j.codec, j.text).err
         e == IF j.text = Denied THEN thrown
              ELSE LocalStorageError("Error deserializing localStorage key",
                                     j.key, <<"cause">> \o thrown)
     IN /\ error' = setError(j, e)
        /\ atom' = updateValue(atom, j.key, Undefined)
        /\ lastSet' = Disturbed(j)
  /\ jobs' = Requeued
  /\ UNCHANGED <<sample, hasWindow, denied, rejected, store, mounted, key, serializer, setValueRef, initialValue,
                 isLoading, timer, timeouts, burst, cause, pending, steps>>

\* .finally(() => void setIsLoading(false))
Finally ==
  /\ HeadIs("read", "finally")
  /\ LET j == Head(jobs) IN
       isLoading' = IF j.live THEN [isLoading EXCEPT ![j.o] = FALSE] ELSE isLoading
  /\ jobs' = Requeued
  /\ UNCHANGED <<sample, hasWindow, denied, rejected, store, atom, mounted, key, serializer, setValueRef, initialValue,
                 error, timer, timeouts, burst, cause, pending, steps, lastSet>>

\* mutant: a successful setItem also clears the error of the hooks of its key
Write_ClearsError ==
  /\ HeadIs("write", "write") /\ ~denied
  /\ LET j == Head(jobs) IN
       /\ store' = [store EXCEPT ![j.key] = j.text]
       /\ lastSet' = [lastSet EXCEPT ![j.key] =
                         [Resolved(j.val, j.codec) EXCEPT !.rapid = j.behind]]
       /\ error' = [o \in Observers |->
                      IF key[o] = j.key THEN NoError ELSE error[o]]
  /\ timer' = Dispatched
  /\ timeouts' = Rescheduled
  /\ burst' = Counted
  /\ cause' = Caused(Head(jobs).key)
  /\ jobs' = Requeued
  /\ UNCHANGED <<sample, hasWindow, denied, rejected, atom, mounted, key, serializer, setValueRef, initialValue,
                 isLoading, pending, steps>>

\* setValue after its await: setItem, then dispatchEvent("local-storage")
Write ==
  /\ HeadIs("write", "write") /\ ~denied
  /\ LET j == Head(jobs) IN
       /\ store' = [store EXCEPT ![j.key] = j.text]
       /\ lastSet' = [lastSet EXCEPT ![j.key] =
                         [Resolved(j.val, j.codec) EXCEPT !.rapid = j.behind]]
  /\ timer' = Dispatched
  /\ timeouts' = Rescheduled
  /\ burst' = Counted
  /\ cause' = Caused(Head(jobs).key)
  /\ jobs' = Requeued
  /\ UNCHANGED <<sample, hasWindow, denied, rejected, atom, mounted, key, serializer, setValueRef, initialValue,
                 error, isLoading, pending, steps>>

\* mutant: the catch block logs the error of setItem and the call resolves
WriteFails_Swallowed ==
  /\ HeadIs("write", "write") /\ denied
  /\ jobs' = Requeued
  /\ UNCHANGED <<sample, hasWindow, denied, rejected, store, atom, hook, pending, steps,
                 lastSet>>

\* setValue after its await when setItem throws: no item is written, no event
\* is dispatched, and the catch block rejects the call
WriteFails ==
  /\ HeadIs("write", "write") /\ denied
  /\ rejected' = LocalStorageError("Error setting localStorage key",
                                   Head(jobs).key, SecurityError)
  /\ jobs' = Requeued
  /\ UNCHANGED <<sample, hasWindow, denied, store, atom, hook, pending, steps, lastSet>>

\* mutant: the catch block of setValue also hands the error to the hook
Reject_SetsError ==
  /\ HeadIs("write", "reject")
  /\ LET j == Head(jobs) IN
       /\ rejected' = LocalStorageError("Error setting localStorage key", j.key,
                                        Serialize(j.codec, j.val).err)
       /\ error' = setError(j, rejected')
  /\ jobs' = Requeued
  /\ UNCHANGED <<sample, hasWindow, denied, store, atom, mounted, key, serializer, setValueRef, initialValue,
                 isLoading, timer, timeouts, burst, cause, pending, steps, lastSet>>

\* setValue after its await when the promise of serialize was rejected: the
\* catch block rejects the call
Reject ==
  /\ HeadIs("write", "reject")
  /\ LET j == Head(jobs) IN
       rejected' = LocalStorageError("Error setting localStorage key", j.key,
                                     Serialize(j.codec, j.val).err)
  /\ jobs' = Requeued
  /\ UNCHANGED <<sample, hasWindow, denied, store, atom, hook, pending, steps, lastSet>>

(***************************************************************************)
(* The tasks that start when no microtask is left: a debounce timer fires, *)
(* the promise of an asynchronous codec settles.                           *)
(***************************************************************************)

\* 50 ms pass without an event: the timers set by the last one are due
Elapse ==
  /\ Idle
  /\ \E o \in Observers : timer[o] = "set"
  /\ timer' = [o \in Observers |-> IF timer[o] = "set" THEN "due" ELSE timer[o]]
  /\ timeouts' = timeouts
  /\ burst' = burst
  /\ cause' = cause
  /\ UNCHANGED <<sample, hasWindow, denied, rejected, store, atom, mounted, key, serializer, setValueRef, initialValue,
                 error, isLoading, jobs, pending, steps, lastSet>>

\* setTimeout(readValueFromStorage, 50) fires
\* mutant: the timer's callback sets isLoading as the effect's first read would
TimerFire_SetsLoading(o) ==
  /\ Idle
  /\ timer[o] = "due"
  /\ timer' = [timer EXCEPT ![o] = "none"]
  /\ timeouts' = [timeouts EXCEPT ![o] = @ - 1]
  /\ burst' = burst
  /\ cause' = [cause EXCEPT ![o] = "none"]
  /\ isLoading' = [isLoading EXCEPT ![o] = TRUE]
  /\ StartRead(o, key[o], serializer[o], cause[o])
  /\ UNCHANGED <<sample, hasWindow, denied, rejected, store, atom, mounted, key, serializer, setValueRef, initialValue,
                 error, steps, lastSet>>

TimerFire(o) ==
  /\ Idle
  /\ timer[o] = "due"
  /\ timer' = [timer EXCEPT ![o] = "none"]
  /\ timeouts' = [timeouts EXCEPT ![o] = @ - 1]
  /\ burst' = burst
  /\ cause' = [cause EXCEPT ![o] = "none"]
  /\ StartRead(o, key[o], serializer[o], cause[o])
  /\ UNCHANGED <<sample, hasWindow, denied, rejected, store, atom, mounted, key, serializer, setValueRef, initialValue,
                 error, isLoading, steps, lastSet>>

\* the promise an asynchronous serialize or deserialize returned settles
AsyncSettle(j) ==
  /\ Idle
  /\ j \in pending
  /\ pending' = pending \ {j}
  /\ LET stages == IF j.op = "write"
                   THEN (IF Serialize(j.codec, j.val).ok THEN <<"write">>
                         ELSE <<"reject">>)
                   ELSE IF readResult(j.codec, j.text).ok
                   THEN <<"then", "hop", "finally">>
                   ELSE <<"hop", "catch", "finally">>
     IN jobs' = <<[j EXCEPT !.stages = stages]>>
  /\ UNCHANGED <<sample, hasWindow, denied, rejected, store, atom, hook, steps, lastSet>>

(***************************************************************************)
(* The rest of the page and the other tabs: they write the store without   *)
(* the hook, and "storage" or "local-storage" events reach the window.     *)
(***************************************************************************)
ForeignWrite(k, t) ==
  /\ Idle /\ EnvStep
  /\ hasWindow /\ ~denied
  /\ store[k] # t
  /\ store' = [store EXCEPT ![k] = t]
  /\ lastSet' = [lastSet EXCEPT ![k] = NoCall]
  /\ UNCHANGED <<sample, hasWindow, denied, rejected, atom, hook, jobs, pending>>

\* the native "storage" event
StorageEvent ==
  /\ Idle /\ EnvStep
  /\ hasWindow
  /\ timer' = Dispatched
  /\ timeouts' = Rescheduled
  /\ burst' = Counted
  /\ cause' = Caused("other")
  /\ lastSet' = [k \in Keys |-> NoCall]
  /\ UNCHANGED <<sample, hasWindow, denied, rejected, store, atom, mounted, key, serializer, setValueRef, initialValue,
                 error, isLoading, jobs, pending>>

\* a "local-storage" event dispatched by other code
LocalStorageEvent ==
  /\ Idle /\ EnvStep
  /\ hasWindow
  /\ timer' = Dispatched
  /\ timeouts' = Rescheduled
  /\ burst' = Counted
  /\ cause' = Caused("other")
  /\ lastSet' = [k \in Keys |-> NoCall]
  /\ UNCHANGED <<sample, hasWindow, denied, rejected, store, atom, mounted, key, serializer, setValueRef, initialValue,
                 error, isLoading, jobs, pending>>

Next ==
  \/ \E o \in Observers, k \in Keys, c \in Codecs :
       \E d \in MountValues(o) : Mount(o, k, c, d)
  \/ \E o \in Observers, k \in Keys : ChangeKey(o, k)
  \/ \E o \in Observers : Rerender(o)
  \/ \E o \in Observers, c \in Codecs : ChangeSerializer(o, c)
  \/ \E o \in Observers : Unmount(o)
  \/ \E o \in Observers : SetValueRemove(o)
  \/ \E o \in Observers : SetValueRemoveFails(o)
  \/ \E o \in Observers, v \in SetValues : SetValueCall(o, v)
  \/ Hop
  \/ Then
  \/ Catch
  \/ Finally
  \/ Write
  \/ WriteFails
  \/ Reject
  \/ Elapse
  \/ \E o \in Observers : TimerFire(o)
  \/ \E j \in pending : AsyncSettle(j)
  \/ \E k \in Keys, t \in ForeignTexts \cup {NoItem} : ForeignWrite(k, t)
  \/ StorageEvent
  \/ LocalStorageEvent

Spec == Init /\ [][Next]_vars

(***************************************************************************)
(* Properties.                                                             *)
(***************************************************************************)

\* no microtask is queued, no codec promise is outstanding, no timer is set
Quiescent ==
  /\ jobs = <<>>
  /\ pending = {}
  /\ \A o \in Observers : timer[o] = "none"

\* decode(encode(v)) with serializer c; defined when both calls return
RoundTrip(c, v) == Deserialize(c, Serialize(c, v).text)

RoundTrips(c, v) == Serialize(c, v).ok /\ RoundTrip(c, v).ok

\* the hooks rendered with key k
Watching(k) == {o \in Observers : mounted[o] /\ key[o] = k}

SetValueStep ==
  \/ \E o \in Observers : SetValueRemove(o)
  \/ \E o \in Observers : SetValueRemoveFails(o)
  \/ \E o \in Observers, v \in SetValues : SetValueCall(o, v)
  \/ Write
  \/ WriteFails
  \/ Reject

\* the read at the head of the queue belongs to a hook that is still
\* rendered with the key the read captured
HeadOwned ==
  LET j == Head(jobs) IN j.live /\ mounted[j.o] /\ key[j.o] = j.key

\* the read of key k at the head of the queue belongs to hook o
HeadOf(o, k) == HeadOwned /\ Head(jobs).o = o /\ Head(jobs).key = k

\* the read at the head of the queue is a re-read of what the last resolved
\* setValue(v), v defined, stored, with that call's serializer
HeadRereadsSet ==
  LET j == Head(jobs)
      l == lastSet[j.key]
  IN /\ hasWindow /\ l.set /\ l.val # Undefined
     /\ j.codec = l.codec
     /\ j.text = Serialize(l.codec, l.val).text
     /\ store[j.key] = j.text

\* the read at the head of the queue found no item after the last resolved
\* setValue(undefined) on its key
HeadRereadsRemoved ==
  LET j == Head(jobs)
      l == lastSet[j.key]
  IN /\ hasWindow /\ l.set /\ l.val = Undefined
     /\ j.text = NoItem /\ store[j.key] = NoItem

\* C2 as stated: the write step of setValue(x) stores encode(x); no step of
\* setValue changes the atom or a hook's error; and when the re-read of that
\* text runs its then-reaction, the hook that read returns decode(encode(x)).
C2_Original ==
  [][/\ Write => LET j == Head(jobs)
                 IN store'[j.key] = Serialize(j.codec, j.val).text
     /\ SetValueStep => atom' = atom /\ error' = error
     /\ \A o \in Observers, k \in Keys :
          (Then /\ HeadOf(o, k) /\ HeadRereadsSet)
            => ExposedValue(o)' = RoundTrip(lastSet[k].codec, lastSet[k].val).val
    ]_vars

\* C3 as stated: setValue(undefined) removes the item of the hook's key, and
\* once a re-read that found it removed runs its then-reaction every hook of
\* that key returns undefined.
C3_Original ==
  [][/\ \A o \in Observers :
          (SetValueRemove(o) /\ hasWindow) => store'[key[o]] = NoItem
     /\ (Then /\ HeadRereadsRemoved)
          => \A o \in Watching(Head(jobs).key) : ExposedValue(o)' = Undefined
    ]_vars

\* C3 (amended): setValue(undefined) removes the item of the hook's key, and
\* once a re-read that found it removed runs its then-reaction the atom has
\* no value for the key and every hook of that key returns its own
\* initialValue (undefined when it has none), or undefined while it has an
\* error.
C3_RemoveFallsBackToInitialValue ==
  [][/\ \A o \in Observers :
          (SetValueRemove(o) /\ hasWindow) => store'[key[o]] = NoItem
     /\ (Then /\ HeadRereadsRemoved)
          => /\ AtomGet(atom', Head(jobs).key) = Undefined
             /\ \A o \in Watching(Head(jobs).key) :
                  ExposedValue(o)' = IF error'[o] # NoError THEN Undefined
                                     ELSE initialValue[o]
    ]_vars

\* a hook with an initialValue returns it after the item of its key was
\* removed through setValue(undefined) and re-read
C3_Witness ==
  \E k \in Keys :
    /\ hasWindow /\ Quiescent
    /\ lastSet[k].set /\ lastSet[k].val = Undefined /\ lastSet[k].clean
    /\ store[k] = NoItem
    /\ atom.defined /\ atom.map[k] = Undefined
    /\ \E o \in Watching(k) :
         /\ ~isLoading[o]
         /\ initialValue[o] # Undefined
         /\ ExposedValue(o) = initialValue[o]

\* C4: when the read of a hook that has an initialValue d finds no item and
\* runs its then-reaction, the hook returns d, the atom has no value for the
\* key, and the store is as it was: still without an item for the key.
C4_InitialValueWhenAbsent ==
  [][\A o \in Observers, k \in Keys :
       (Then /\ HeadOf(o, k) /\ Head(jobs).text = NoItem
             /\ initialValue[o] # Undefined)
         => /\ ExposedValue(o)' = initialValue[o]
            /\ AtomGet(atom', k) = Undefined
            /\ store' = store
            /\ getItem(k) = NoItem
    ]_vars

\* a hook with an initialValue has finished loading a key that has no item
\* and returns its initialValue, while the store still has no item
C4_Witness ==
  \E o \in Observers :
    /\ hasWindow /\ mounted[o] /\ ~isLoading[o] /\ Quiescent
    /\ ~lastSet[key[o]].set
    /\ store[key[o]] = NoItem
    /\ initialValue[o] = Str(<<"d">>)
    /\ error[o] = NoError
    /\ ExposedValue(o) = Str(<<"d">>)

\* C5 as stated: when the read of a hook that has an initialValue found an
\* item that decodes, and runs its then-reaction, the hook returns the
\* decoded value, whatever that value is.
C5_Original ==
  [][\A o \in Observers, k \in Keys :
       (Then /\ HeadOf(o, k) /\ Head(jobs).text # NoItem
             /\ initialValue[o] # Undefined)
         => ExposedValue(o)' = readResult(Head(jobs).codec, Head(jobs).text).val
    ]_vars

\* C6: a read whose item cannot be decoded ends in the catch-reaction and
\* never in the then-reaction; the catch-reaction leaves the hook with a
\* LocalStorageError for the key and with the value undefined, whether or
\* not it has an initialValue.
C6_DecodeFailureSetsError ==
  [][/\ Then => readResult(Head(jobs).codec, Head(jobs).text).ok
     /\ Catch => ~readResult(Head(jobs).codec, Head(jobs).text).ok
     /\ \A o \in Observers, k \in Keys :
          (Catch /\ HeadOf(o, k) /\ Head(jobs).text # Denied)
            => /\ Len(error'[o]) >= 3
               /\ SubSeq(error'[o], 1, 3) =
                    <<"LocalStorageError",
                      "Error deserializing localStorage key", k>>
               /\ ExposedValue(o)' = Undefined
    ]_vars

\* a hook with an initialValue has an error and returns undefined after
\* reading an item that does not decode
C6_Witness ==
  \E o \in Observers :
    /\ mounted[o] /\ ~isLoading[o]
    /\ initialValue[o] # Undefined
    /\ ~Deserialize(serializer[o], store[key[o]]).ok
    /\ error[o] # NoError
    /\ ExposedValue(o) = Undefined

\* C7: the store changes only in a setValue step of some hook or in a write
\* by other code; no step of a read, failed or not, changes or removes an
\* item.
C7_ReadsLeaveStore ==
  [][store' # store
       => \/ SetValueStep
          \/ \E k \in Keys, t \in ForeignTexts \cup {NoItem} : ForeignWrite(k, t)
    ]_vars

\* the item that failed to decode is still in the store after the read
\* has run to its end
C7_Witness ==
  \E o \in Observers :
    /\ mounted[o] /\ ~isLoading[o] /\ Quiescent
    /\ error[o] # NoError
    /\ store[key[o]] = <<"invalid-json">>
    /\ atom.defined

\* C8 as stated: when a hook has the error of a failed decode on its key,
\* and a read of an item that other code wrote for that key runs its
\* then-reaction, the hook's error is cleared and it returns the decoded
\* value.
C8_Original ==
  [][\A o \in Observers, k \in Keys :
       (Then /\ HeadOf(o, k) /\ Head(jobs).text # NoItem
             /\ error[o] # NoError /\ error[o][3] = k
             /\ ~lastSet[k].set)
         => /\ error'[o] = NoError
            /\ ExposedValue(o)' = readResult(Head(jobs).codec, Head(jobs).text).val
    ]_vars

\* C9: the render with the new key returns what the atom holds for the new
\* key (with the hook's initialValue as fallback), never the entry of the
\* old key; and when the read of the new key finds no item and runs its
\* then-reaction, a hook without initialValue returns undefined.
C9_KeySwitchDoesNotLeak ==
  [][/\ \A o \in Observers, k \in Keys :
          ChangeKey(o, k)
            => /\ ExposedValue(o)' =
                    IF error[o] # NoError THEN Undefined
                    ELSE Coalesce(AtomGet(atom, k), initialValue[o])
               /\ (AtomGet(atom, k) = Undefined /\ initialValue[o] = Undefined)
                    => ExposedValue(o)' = Undefined
     /\ \A o \in Observers, k \in Keys :
          (Then /\ HeadOf(o, k) /\ Head(jobs).text = NoItem
                /\ initialValue[o] = Undefined)
            => ExposedValue(o)' = Undefined
    ]_vars

\* the only hook has just been re-rendered with key B, which has no item,
\* after it read "ab" for key A: it returns undefined while its read of B
\* is still queued
C9_Witness ==
  \E o \in Observers :
    /\ hasWindow /\ steps <= 2
    /\ \A p \in Observers : mounted[p] <=> p = o
    /\ key[o] = "B" /\ ~isLoading[o]
    /\ AtomGet(atom, "A") = Str(<<"a", "b">>)
    /\ store["B"] = NoItem
    /\ jobs # <<>> /\ Head(jobs).o = o /\ Head(jobs).key = "B"
    /\ Head(jobs).stages = <<"then", "hop", "finally">>
    /\ ExposedValue(o) = Undefined

\* the reads of hook o that have not yet run their finally-reaction
LiveReads(o) ==
  {i \in 1..Len(jobs) : jobs[i].op = "read" /\ jobs[i].o = o /\ jobs[i].live}

\* C10: a hook is loading from its first render; the finally-reaction of a
\* read of its own ends the loading, after the then-reaction as after the
\* catch-reaction; and a mounted hook that is still loading always has a
\* read of its own outstanding, whose last reaction is the finally-reaction.
C10_LoadingEndsWithFirstRead ==
  /\ [](\A o \in Observers :
          (mounted[o] /\ isLoading[o])
            => \/ \E i \in LiveReads(o) :
                    jobs[i].stages[Len(jobs[i].stages)] = "finally"
               \/ \E j \in pending : j.op = "read" /\ j.o = o /\ j.live)
  /\ [][/\ \A o \in Observers, k \in Keys, c \in Codecs, d \in InitialValues :
             Mount(o, k, c, d) => isLoading'[o]
        /\ (Finally /\ Head(jobs).live) => ~isLoading'[Head(jobs).o]
       ]_vars

\* one hook has finished loading with an error and another has finished
\* loading a key without item
C10_Witness ==
  \E o1, o2 \in Observers :
    /\ mounted[o1] /\ ~isLoading[o1] /\ error[o1] # NoError
    /\ mounted[o2] /\ ~isLoading[o2] /\ error[o2] = NoError
    /\ store[key[o2]] = NoItem
    /\ Quiescent

\* C11 as stated: the render that changes a hook's key makes isLoading true,
\* and while a read of that hook for its current key has not run its
\* finally-reaction isLoading is true.
C11_Original ==
  /\ [][\A o \in Observers, k \in Keys : ChangeKey(o, k) => isLoading'[o]]_vars
  /\ [](\A o \in Observers :
          (mounted[o] /\ \E i \in LiveReads(o) : jobs[i].key = key[o])
            => isLoading[o])

\* a step in which an event reaches the window: a "storage" or
\* "local-storage" event of other code, or the dispatchEvent of setValue
Notification ==
  \/ StorageEvent
  \/ LocalStorageEvent
  \/ Write
  \/ \E o \in Observers : SetValueRemove(o) /\ hasWindow

\* a step in which readValueFromStorage is called for hook o
ReadStarted(o) ==
  \/ \E j \in pending' \ pending : j.op = "read" /\ j.o = o /\ j.live
  \/ /\ pending' = pending
     /\ Len(jobs') = Len(jobs) + 1
     /\ jobs'[Len(jobs')].op = "read" /\ jobs'[Len(jobs')].o = o

\* C12: a notification that reaches a hook whose timer is pending restarts
\* the timer and starts no read; a pending timer becomes due only by 50 ms
\* passing without a notification; and apart from the effect (first render,
\* key or serializer change) a read of the hook starts only when its timer fires, which
\* happens once the timer is due and leaves no timer behind. So a burst of N
\* notifications, each within 50 ms of the one before, starts one read,
\* after the last of them.
C12_DebounceCoalesces ==
  [][\A o \in Observers :
       /\ (Notification /\ mounted[o] /\ timer[o] \in {"set", "due"})
            => timer'[o] = "set" /\ burst'[o] = burst[o] + 1 /\ ~ReadStarted(o)
       /\ (timer[o] = "set" /\ timer'[o] = "due") => Elapse
       /\ ReadStarted(o)
            => \/ \E k \in Keys, c \in Codecs, d \in InitialValues : Mount(o, k, c, d)
               \/ \E k \in Keys : ChangeKey(o, k)
               \/ \E c \in Codecs : ChangeSerializer(o, c)
               \/ TimerFire(o) /\ timer[o] = "due" /\ timer'[o] = "none"
    ]_vars

\* the timer of a hook has fired after a burst of two notifications and the
\* one read it started is queued
C12_Witness ==
  \E o \in Observers :
    /\ mounted[o] /\ ~isLoading[o]
    /\ burst[o] = 2 /\ timer[o] = "none"
    /\ pending = {}
    /\ Len(jobs) = 1 /\ Head(jobs).op = "read" /\ Head(jobs).o = o
    /\ Head(jobs).stages = readStages(Head(jobs).codec, Head(jobs).text)

\* e is the LocalStorageError setValue throws for key k
IsSetError(e, k) ==
  /\ Len(e) >= 3
  /\ SubSeq(e, 1, 3) = <<"LocalStorageError", "Error setting localStorage key", k>>

C14_StoreFailureRejects ==
  [][/\ WriteFails
          => /\ IsSetError(rejected', Head(jobs).key)
             /\ CauseOf(rejected') = SecurityError
             /\ CauseMessage(rejected') = SecurityError
             /\ store' = store /\ timer' = timer
             /\ jobs' = Tail(jobs) /\ pending' = pending
     /\ \A o \in Observers :
          SetValueRemoveFails(o)
            => /\ IsSetError(rejected', key[o])
               /\ CauseOf(rejected') = SecurityError
               /\ store' = store /\ timer' = timer
               /\ jobs' = jobs /\ pending' = pending
    ]_vars

\* a setValue call of a hook was rejected because setItem or removeItem
\* threw, and nothing is left to run
C14_Witness ==
  \E o \in Observers :
    /\ denied /\ mounted[o] /\ steps = 2
    /\ serializer[o] = "json"
    /\ IsSetError(rejected, key[o])
    /\ CauseOf(rejected) = SecurityError
    /\ jobs = <<>> /\ pending = {}
    /\ ~isLoading[o]

\* C15 as stated: from one render of a mounted hook to the next, the
\* setValue it returns is another function if and only if its key has
\* changed.
C15_Original ==
  [][\A o \in Observers :
       (mounted[o] /\ mounted'[o])
         => (setValueRef'[o] # setValueRef[o] <=> key'[o] # key[o])
    ]_vars

\* C15 (amended): from one render of a mounted hook to the next, the
\* setValue it returns is another function if and only if its key or its
\* serializer object has changed; a render with the same key and the same
\* serializer returns the same function; and a call of the function the
\* last render returned queues its write for the key of that render.
C15_CallbackFollowsKeyAndSerializer ==
  [][\A o \in Observers :
       /\ (mounted[o] /\ mounted'[o])
            => (setValueRef'[o] # setValueRef[o]
                  <=> \/ key'[o] # key[o]
                      \/ \E c \in Codecs : ChangeSerializer(o, c))
       /\ Rerender(o) => setValueRef'[o] = setValueRef[o]
       /\ \A v \in SetValues :
            (SetValueCall(o, v) /\ Len(jobs') = Len(jobs) + 1)
              => jobs'[Len(jobs')].key = key[o]
    ]_vars

\* the hook was rendered again with another serializer object and the same
\* key, and returns its second setValue function while the read it started
\* with the first serializer is still outstanding
C15_Witness ==
  \E o \in Observers :
    /\ mounted[o] /\ steps = 2
    /\ setValueRef[o] = 1
    /\ \E j \in pending :
         /\ j.op = "read" /\ j.o = o /\ j.live
         /\ j.key = key[o]
         /\ j.codec # serializer[o]

\* the setValue calls whose setItem is still to come
Outstanding ==
  Cardinality({i \in 1..Len(jobs) : jobs[i].op = "write"})
    + Cardinality({j \in pending : j.op = "write"})

\* C16: a setValue call dispatches its "local-storage" event in the step in
\* which it has modified the store, and in no other: removeItem and the
\* event in the call itself; setItem and the event in the one step that
\* takes the call's continuation from the queue, of which each call with a
\* value leaves exactly one outstanding; the call up to its await, a failed
\* call and a call without window reach no handler and leave the store.
C16_DispatchFollowsStore ==
  [][/\ \A o \in Observers :
          SetValueRemove(o)
            => IF hasWindow
               THEN /\ store'[key[o]] = NoItem
                    /\ timer' = Dispatched /\ burst' = Counted
               ELSE store' = store /\ timer' = timer /\ burst' = burst
     /\ Write
          => /\ store'[Head(jobs).key] = Head(jobs).text
             /\ timer' = Dispatched /\ burst' = Counted
             /\ jobs' = Tail(jobs)
             /\ Outstanding' = Outstanding - 1
     /\ \A o \in Observers, v \in SetValues :
          SetValueCall(o, v)
            => /\ store' = store /\ timer' = timer /\ burst' = burst
               /\ Outstanding' = Outstanding +
                    (IF hasWindow /\ (IsAsync(serializer[o]) \/ Serialize(serializer[o], v).ok)
                     THEN 1 ELSE 0)
     /\ (WriteFails \/ Reject)
          => /\ store' = store /\ timer' = timer /\ burst' = burst
             /\ Outstanding' = Outstanding - 1
     /\ (\E o \in Observers : SetValueRemoveFails(o))
          => store' = store /\ timer' = timer /\ burst' = burst
     /\ ~SetValueStep => Outstanding' = Outstanding
    ]_vars

\* setValue(v) of a hook has stored its text, and the one event it
\* dispatched has set the timer of the hook
C16_Witness ==
  \E o \in Observers :
    /\ mounted[o] /\ steps = 2
    /\ lastSet[key[o]].set /\ lastSet[key[o]].val = Str(<<"a", "b">>)
    /\ store[key[o]] = Serialize(serializer[o], Str(<<"a", "b">>)).text
    /\ timer[o] = "set" /\ burst[o] = 1
    /\ Outstanding = 0

\* a step of a setValue call on key k
SetValueOn(k) ==
  \/ \E o \in Observers :
       /\ key[o] = k
       /\ \/ SetValueRemove(o)
          \/ SetValueRemoveFails(o)
          \/ \E v \in SetValues : SetValueCall(o, v)
  \/ (Write \/ WriteFails \/ Reject) /\ Head(jobs).key = k

\* a reaction of a read that a timer started which the event of a setValue
\* call on key k had set
RereadAfter(k) ==
  /\ jobs # <<>>
  /\ Head(jobs).op = "read" /\ Head(jobs).by = k
  /\ (Hop \/ Then \/ Catch \/ Finally)

\* C17 as stated: a step of a setValue call on a key k1, and a step of a
\* re-read it triggers in any hook, leaves the item of every other key k2,
\* the atom entry of k2 and the value returned by every hook of k2 as they
\* were.
C17_Original ==
  [][\A k1, k2 \in Keys :
       (k1 # k2 /\ (SetValueOn(k1) \/ RereadAfter(k1)))
         => /\ store'[k2] = store[k2]
            /\ AtomGet(atom', k2) = AtomGet(atom, k2)
            /\ \A o \in Observers :
                 (mounted[o] /\ key[o] = k2) => ExposedValue(o)' = ExposedValue(o)
    ]_vars

\* C17 (amended): a step of a setValue call on a key k1 leaves every item of
\* another key, the whole atom and the value every hook returns as they
\* were. A step of a re-read it triggers leaves the store as it was. When
\* the re-read is one of k1, it leaves the atom entry of every other key k2
\* and the value returned by every other hook of k2 as they were. When the
\* re-read is one of a hook of another key k2, it leaves the atom entries of
\* the keys other than k2 as they were, and the entry of k2 is afterwards
\* what it was or what the item the read got from k2 decodes to, and it is
\* what it was when that is equal to it.
C17_OtherKeysRederiveFromOwnItem ==
  [][\A k1, k2 \in Keys :
       k1 # k2 =>
         /\ SetValueOn(k1)
              => /\ store'[k2] = store[k2]
                 /\ atom' = atom
                 /\ \A o \in Observers : ExposedValue(o)' = ExposedValue(o)
         /\ RereadAfter(k1) => store' = store
         /\ (RereadAfter(k1) /\ Head(jobs).key = k1)
              => /\ AtomGet(atom', k2) = AtomGet(atom, k2)
                 /\ \A o \in Observers :
                      (o # Head(jobs).o /\ mounted[o] /\ key[o] = k2)
                        => ExposedValue(o)' = ExposedValue(o)
         /\ (RereadAfter(k1) /\ Head(jobs).key = k2)
              => LET j == Head(jobs)
                     r == readResult(j.codec, j.text)
                     derived == IF r.ok THEN r.val ELSE Undefined
                 IN /\ AtomGet(atom', k1) = AtomGet(atom, k1)
                    /\ AtomGet(atom', k2) \in {AtomGet(atom, k2), derived}
                    /\ isEqual(AtomGet(atom, k2), derived)
                         => AtomGet(atom', k2) = AtomGet(atom, k2)
    ]_vars

\* setValue on one key has stored its text, and the re-read its event
\* triggered in a hook of another key has run its then-reaction: the atom
\* holds what the item of that other key decodes to
C17_Witness ==
  \E k1, k2 \in Keys :
    /\ k1 # k2
    /\ lastSet[k1].set /\ lastSet[k1].val # Undefined
    /\ jobs # <<>>
    /\ LET j == Head(jobs) IN
         /\ j.op = "read" /\ j.by = k1 /\ j.key = k2 /\ j.live
         /\ j.stages = <<"finally">>
         /\ j.text # NoItem
         /\ readResult(j.codec, j.text).ok
         /\ AtomGet(atom, k2) = readResult(j.codec, j.text).val
         /\ ExposedValue(j.o) = AtomGet(atom, k2)

\* the continuations of the setValue calls run in the order of the calls:
\* a call with the synchronous serializer joins the queue behind those made
\* before it, and the write at the head is older than every write of its key
\* queued behind it
WritesInCallOrder ==
  /\ \A o \in Observers, v \in SetValues :
       (SetValueCall(o, v) /\ Len(jobs') = Len(jobs) + 1)
         => /\ jobs'[Len(jobs')].val = v /\ jobs'[Len(jobs')].key = key[o]
            /\ \A i \in 1..Len(jobs) :
                 jobs[i].op = "write" => jobs[i].call < jobs'[Len(jobs')].call
  /\ Write
       => \A i \in 2..Len(jobs) :
            (jobs[i].op = "write" /\ jobs[i].key = Head(jobs).key)
              => jobs[i].call > Head(jobs).call

\* C18 as stated: with the synchronous serializer, the writes of setValue
\* calls made back to back on a key reach the store in the order of the
\* calls; and once the last of them, setValue(vn), has resolved and nothing
\* else has written the store or dispatched an event since, in every
\* quiescent state the item of the key is encode(vn) and every hook of the
\* key returns vn with no error.
C18_Original ==
  /\ [][WritesInCallOrder]_vars
  /\ [](\A k \in Keys :
          LET l == lastSet[k] IN
          (/\ hasWindow /\ Quiescent
           /\ l.set /\ l.rapid /\ l.clean
           /\ l.codec = "json" /\ l.val # Undefined
           /\ \A o \in Watching(k) : serializer[o] = "json")
            => /\ store[k] = Serialize("json", l.val).text
               /\ \A o \in Watching(k) :
                    error[o] = NoError /\ ExposedValue(o) = l.val)

\* C19 as stated: the LocalStorageError a hook gets when deserialize failed
\* in its read, and the one a setValue call is rejected with when serialize
\* failed, has the error of the serializer as its cause, so that
\* error.cause.message is the message of that error.
C19_Original ==
  [][/\ \A o \in Observers, k \in Keys :
          (Catch /\ HeadOf(o, k) /\ Head(jobs).text # Denied)
            => LET thrown == readResult(Head(jobs).codec, Head(jobs).text).err
               IN /\ CauseOf(error'[o]) = thrown
                  /\ CauseMessage(error'[o]) = thrown
     /\ \A o \in Observers, v \in SetValues :
          (/\ SetValueCall(o, v) /\ hasWindow
           /\ ~IsAsync(serializer[o]) /\ ~Serialize(serializer[o], v).ok)
            => /\ CauseOf(rejected') = Serialize(serializer[o], v).err
               /\ CauseMessage(rejected') = Serialize(serializer[o], v).err
     /\ Reject
          => LET thrown == Serialize(Head(jobs).codec, Head(jobs).val).err
             IN CauseOf(rejected') = thrown /\ CauseMessage(rejected') = thrown
    ]_vars

\* C20 as stated: when getItem itself throws in a read of a hook, the read
\* ends as one of an absent key: once its last reaction has run the hook has
\* no error and returns its initialValue (undefined without one).
C20_Original ==
  [][\A o \in Observers, k \in Keys :
       (Finally /\ HeadOf(o, k) /\ Head(jobs).text = Denied)
         => /\ error'[o] = NoError
            /\ ExposedValue(o)' = initialValue[o]
    ]_vars

\* what the consumer may get as an error: nothing, or a LocalStorageError
IsTyped(e) == e = NoError \/ (Len(e) >= 3 /\ e[1] = "LocalStorageError")

\* C21 as stated: in every reachable state the error of every hook is
\* undefined or a LocalStorageError, and the error the last rejected setValue
\* call was rejected with is a LocalStorageError.
C21_Original ==
  /\ \A o \in Observers : IsTyped(error[o])
  /\ IsTyped(rejected)

\* C22: where there is no window, a read ends in its then-reaction with
\* undefined, so that the hook has no error and returns its initialValue; no
\* read ends in the catch-reaction; a setValue call, with a value or without,
\* changes nothing: no item, no atom entry, no state of a hook, no timer, and
\* no continuation is queued; and no call is ever rejected.
C22_NoWindowIsAbsent ==
  /\ [][~hasWindow =>
          /\ ~(Catch \/ Write \/ WriteFails \/ Reject)
          /\ \A o \in Observers, k \in Keys :
               (Then /\ HeadOf(o, k))
                 => /\ Head(jobs).text = NoItem
                    /\ error'[o] = NoError
                    /\ ExposedValue(o)' = initialValue[o]
          /\ \A o \in Observers :
               (SetValueRemove(o) \/ \E v \in SetValues : SetValueCall(o, v))
                 => UNCHANGED <<store, atom, hook, jobs, pending, rejected, lastSet>>
      ]_vars
  /\ [](~hasWindow =>
          /\ rejected = NoError
          /\ \A o \in Observers : error[o] = NoError /\ timer[o] = "none"
          /\ \A k \in Keys : store[k] = NoItem)

\* without a window, a hook with an initialValue has finished its read and
\* returns the initialValue with no error, and its consumer has acted since
C22_Witness ==
  \E o \in Observers :
    /\ ~hasWindow
    /\ mounted[o] /\ ~isLoading[o]
    /\ steps >= 2 /\ Quiescent
    /\ atom.defined
    /\ error[o] = NoError
    /\ initialValue[o] = Str(<<"d">>) /\ ExposedValue(o) = Str(<<"d">>)

\* after the step a read of hook o is outstanding that has got the item its
\* current key has now
ReadsCurrentItem(o) ==
  \E j \in pending' \cup (IF jobs' = <<>> THEN {} ELSE {jobs'[Len(jobs')]}) :
    /\ j.op = "read" /\ j.live /\ j.o = o
    /\ j.key = key[o] /\ j.codec = serializer[o]
    /\ j.text = getItem(key[o])

\* C23 as stated: a "storage" event and a "local-storage" event of other
\* code have one and the same effect, which is to set the timer of every
\* mounted hook and nothing else; the timer, when it fires, starts a read of
\* the item the hook's current key has at that moment; and when that read
\* has decoded the item the hook has no error and returns what the item
\* decodes to (its initialValue when there is no item), and when it could
\* not decode it the hook has an error and returns undefined.
C23_Original ==
  [][/\ (StorageEvent \/ LocalStorageEvent)
          => /\ timer' = [o \in Observers |-> IF mounted[o] THEN "set" ELSE timer[o]]
             /\ UNCHANGED <<store, atom, mounted, key, serializer, error,
                            isLoading, jobs, pending>>
     /\ \A o \in Observers :
          TimerFire(o)
            => ReadsCurrentItem(o)
     /\ \A o \in Observers, k \in Keys :
          (Then /\ HeadOf(o, k) /\ Head(jobs).by = "other")
            => /\ error'[o] = NoError
               /\ ExposedValue(o)' =
                    IF Head(jobs).text = NoItem THEN initialValue[o]
                    ELSE readResult(Head(jobs).codec, Head(jobs).text).val
     /\ \A o \in Observers, k \in Keys :
          (Catch /\ HeadOf(o, k) /\ Head(jobs).by = "other")
            => error'[o] # NoError /\ ExposedValue(o)' = Undefined
    ]_vars

\* C24: a hook that is not mounted has no timer; the unmount leaves none,
\* whatever the timer's state was; an event that reaches the window while
\* the hook is not mounted sets no timer for it; no timer of it fires; and a
\* read is started for a hook only by its first render or while it is
\* mounted.
C24_UnmountCancels ==
  /\ [](\A o \in Observers : ~mounted[o] => timer[o] = "none")
  /\ [][\A o \in Observers :
          /\ Unmount(o) => timer'[o] = "none" /\ ~ReadStarted(o)
          /\ (Notification /\ ~mounted[o]) => timer'[o] = "none" /\ ~ReadStarted(o)
          /\ TimerFire(o) => mounted[o]
          /\ (ReadStarted(o) /\ ~mounted[o])
               => \E k \in Keys, c \in Codecs, d \in InitialValues : Mount(o, k, c, d)
       ]_vars

\* a hook was unmounted while its first read was outstanding and while the
\* timer was pending that the event of its setValue(undefined) had set: no
\* timer is left and no read has been started since
C24_Witness ==
  \E o \in Observers, k \in Keys :
    /\ hasWindow /\ ~mounted[o]
    /\ lastSet[k].set /\ lastSet[k].val = Undefined
    /\ ~atom.defined
    /\ timer[o] = "none"
    /\ jobs = <<>>
    /\ Cardinality(pending) = 1
    /\ \A j \in pending :
         j.op = "read" /\ j.o = o /\ j.key = k /\ ~j.live /\ j.by = "effect"

\* the reads a step has started
NewReads ==
  {j \in pending' \ pending : j.op = "read" /\ j.live}
    \cup (IF pending' = pending /\ Len(jobs') = Len(jobs) + 1
             /\ jobs'[Len(jobs')].op = "read"
          THEN {jobs'[Len(jobs')]} ELSE {})

\* C25: a render of a mounted hook with another key k leaves the hook
\* without a timer, whatever the timer's state was, and with a read of the
\* item of k, started by the effect, outstanding; every read a step starts
\* is a read of the key its hook has after the step; and a read that is not
\* started by the effect is started by the hook's timer firing.
C25_KeyChangeRetargets ==
  [][/\ \A o \in Observers, k \in Keys :
          ChangeKey(o, k)
            => /\ timer'[o] = "none"
               /\ \E j \in pending' \cup (IF jobs' = <<>> THEN {}
                                         ELSE {jobs'[Len(jobs')]}) :
                    /\ j.op = "read" /\ j.live /\ j.o = o /\ j.by = "effect"
                    /\ j.key = k /\ j.text = getItem(k)
     /\ \A j \in NewReads :
          /\ j.key = key'[j.o]
          /\ j.by # "effect" => TimerFire(j.o) /\ j.key = key[j.o]
    ]_vars

\* a hook was rendered with key "B" while its first read of "A" was
\* outstanding and while the timer was pending that the event of its
\* setValue(undefined) on "A" had set: no timer is left, and the read of "B"
\* is queued
C25_Witness ==
  \E o \in Observers :
    /\ hasWindow /\ mounted[o] /\ key[o] = "B" /\ setValueRef[o] = 1
    /\ lastSet["A"].set /\ lastSet["A"].val = Undefined
    /\ ~atom.defined
    /\ timer[o] = "none"
    /\ Cardinality(pending) = 1
    /\ \A j \in pending :
         j.op = "read" /\ j.o = o /\ j.key = "A" /\ j.live /\ j.by = "effect"
    /\ Len(jobs) = 1
    /\ Head(jobs).op = "read" /\ Head(jobs).o = o /\ Head(jobs).key = "B"
    /\ Head(jobs).stages = readStages(serializer[o], NoItem)

(***************************************************************************)
(* The hook called with the falsy values of the test suite.                *)
(***************************************************************************)

\* "", 0 and false, and the objects { testValue: "" }, { testValue: 0 } and
\* { testValue: false } of the tests
FalsyValues ==
  LET scalars == {Str(<<>>), Num("0"), Bool("false")}
  IN scalars \cup {Blob(v) : v \in scalars}

FalsyInit == Init /\ hasWindow /\ ~denied

\* the falsy-value tests render one hook
FalsyHooks == {"o1"}

FalsyNext ==
  \/ \E o \in FalsyHooks, k \in Keys, c \in Codecs :
       \E d \in MountValues(o) : Mount(o, k, c, d)
  \/ \E o \in Observers : SetValueRemove(o)
  \/ \E o \in Observers, v \in FalsyValues : SetValueCall(o, v)
  \/ Hop
  \/ Then
  \/ Catch
  \/ Finally
  \/ Write
  \/ Elapse
  \/ \E o \in Observers : TimerFire(o)
  \/ \E j \in pending : AsyncSettle(j)

FalsySpec == FalsyInit /\ [][FalsyNext]_vars

\* C26: setValue(v) with a falsy v that is not undefined removes no item;
\* its write stores serialize(v), which is an item, and which deserialize
\* turns into v again; when the re-read of that item runs its then-reaction
\* the hook returns v, not its initialValue; and an item disappears from the
\* store only in a setValue(undefined) call of a hook of its key.
C26_FalsyValuesAreStored ==
  [][/\ \A o \in Observers, v \in FalsyValues :
          SetValueCall(o, v) => store' = store
     /\ Write
          => LET j == Head(jobs) IN
             /\ j.val \in FalsyValues
             /\ store'[j.key] = Serialize(j.codec, j.val).text
             /\ store'[j.key] # NoItem
             /\ Deserialize(j.codec, store'[j.key]) = RetVal(j.val)
     /\ \A o \in Observers, k \in Keys :
          (Then /\ HeadOf(o, k) /\ HeadRereadsSet)
            => /\ lastSet[k].val \in FalsyValues
               /\ error'[o] = NoError
               /\ ExposedValue(o)' = lastSet[k].val
     /\ \A k \in Keys :
          (store[k] # NoItem /\ store'[k] = NoItem)
            => \E o \in Observers : key[o] = k /\ SetValueRemove(o)
    ]_vars

\* a hook with an initialValue returns the falsy value it has set, and the
\* store holds the text of that value
C26_Witness ==
  \E o \in Observers, v \in FalsyValues :
    /\ Quiescent /\ mounted[o] /\ ~isLoading[o]
    /\ initialValue[o] = Str(<<"d">>)
    /\ lastSet[key[o]].set /\ lastSet[key[o]].val = v
    /\ store[key[o]] = Serialize(serializer[o], v).text
    /\ error[o] = NoError
    /\ ExposedValue(o) = v

\* C27: a hook whose error is set is mounted and returns undefined, whatever
\* the atom holds for its key and whatever its initialValue is; a set error
\* becomes undefined only when the then-reaction of a read of that hook
\* instance runs, or when the hook unmounts; and that then-reaction always
\* leaves the error undefined.
C27_ErrorHidesValue ==
  /\ [](\A o \in Observers :
          error[o] # NoError => mounted[o] /\ ExposedValue(o) = Undefined)
  /\ [][\A o \in Observers :
          /\ (error[o] # NoError /\ error'[o] = NoError)
               => \/ Then /\ Head(jobs).o = o /\ Head(jobs).live
                  \/ Unmount(o)
          /\ (Then /\ Head(jobs).o = o /\ Head(jobs).live)
               => error'[o] = NoError
       ]_vars

\* a hook with an initialValue whose error is set while the atom holds a
\* value for its key returns undefined
C27_Witness ==
  \E o \in Observers :
    /\ error[o] # NoError
    /\ initialValue[o] = Str(<<"d">>)
    /\ AtomGet(atom, key[o]) # Undefined
    /\ ExposedValue(o) = Undefined

(***************************************************************************)
(* JsonSerializer on its own: a JSON value is drawn, serialize is applied  *)
(* to it, and deserialize to the text serialize returned.                  *)
(***************************************************************************)
\* the longest string drawn
MaxLen == 1

\* how deep arrays and objects are nested in the values drawn
MaxDepth == 1

\* a plain character, and the two characters JSON.stringify escapes
StringChars == {"a", DQ, "\\"}

RECURSIVE Strings(_)
Strings(n) ==
  IF n = 0 THEN {<<>>}
  ELSE Strings(n - 1) \cup {Append(t, c) : t \in Strings(n - 1), c \in StringChars}

JsonScalars ==
  {Null} \cup {Bool(b) : b \in {"true", "false"}} \cup {Num(n) : n \in Numerals}
         \cup {Str(t) : t \in Strings(MaxLen)}

\* arrays of no, one and two elements, the second one a scalar
Arrays(S) ==
  {Arr(<<>>)} \cup {Arr(<<x>>) : x \in S}
              \cup {Arr(<<x, y>>) : x \in S, y \in JsonScalars}

MemberNames == {"a", "b"}

\* objects of no, one and two members, the second one a scalar
Objects(S) ==
  {Obj(<<>>)} \cup {Obj(<<Pair(n, x)>>) : n \in MemberNames, x \in S}
              \cup {Obj(<<Pair("a", x), Pair("b", y)>>) : x \in S, y \in JsonScalars}

RECURSIVE JsonValues(_)
\* numbers, strings, booleans, null, and arrays and objects of them
JsonValues(depth) ==
  IF depth = 0 THEN JsonScalars
  ELSE LET S == JsonValues(depth - 1) IN S \cup Arrays(S) \cup Objects(S)

CodecInit ==
  /\ Loaded /\ hasWindow /\ ~denied
  /\ sample \in {[stage |-> "value", v |-> v, out |-> RetVal(Undefined)] :
                    v \in JsonValues(MaxDepth)}

\* JsonSerializer.serialize(value)
JsonSerialize ==
  /\ sample.stage = "value"
  /\ sample' = [sample EXCEPT !.stage = "text", !.out = Serialize("json", sample.v)]
  /\ UNCHANGED <<hasWindow, denied, rejected, store, atom, hook, jobs, pending, steps,
                 lastSet>>

\* JsonSerializer.deserialize(item) of the text serialize returned
JsonDeserialize ==
  /\ sample.stage = "text" /\ sample.out.ok
  /\ sample' = [sample EXCEPT !.stage = "back",
                              !.out = Deserialize("json", sample.out.text)]
  /\ UNCHANGED <<hasWindow, denied, rejected, store, atom, hook, jobs, pending, steps,
                 lastSet>>

CodecNext == JsonSerialize \/ JsonDeserialize

CodecSpec == CodecInit /\ [][CodecNext]_vars

C29_Original ==
  [][(Then /\ isEqual(AtomGet(atom, Head(jobs).key),
                       readResult(Head(jobs).codec, Head(jobs).text).val))
       => atom' = atom]_vars

\* C30: the window never holds more than one timeout of a hook, and the one
\* it holds is the timer of the hook's debounceTimeoutRef; a notification
\* that reaches a hook whose timer is pending leaves it with one timeout, the
\* new one; and a change of key or of serializer leaves the hook without
\* timeout.
C30_OneTimer ==
  /\ [](\A o \in Observers :
          timeouts[o] = IF timer[o] = "none" THEN 0 ELSE 1)
  /\ [][\A o \in Observers :
          /\ (Notification /\ Listening(o) /\ timer[o] # "none")
               => timer'[o] = "set" /\ timeouts'[o] = 1
          /\ ((\E k \in Keys : ChangeKey(o, k))
                \/ (\E c \in Codecs : ChangeSerializer(o, c)))
               => timer'[o] = "none" /\ timeouts'[o] = 0
       ]_vars

\* a hook has got a second notification while its timer was pending, and the
\* window holds one timeout of it
C30_Witness ==
  \E o \in Observers :
    /\ mounted[o]
    /\ burst[o] >= 2
    /\ timer[o] = "set" /\ timeouts[o] = 1

\* C31: isLoading of a hook that is false stays false in every step in which
\* the hook stays mounted: a notification, the firing of its timer and the
\* reactions of the re-read never set it; it is true again only for the
\* instance that is rendered after the hook was unmounted.
C31_RereadKeepsLoaded ==
  [][\A o \in Observers :
       /\ (~isLoading[o] /\ isLoading'[o]) => Unmount(o)
       /\ (~isLoading[o] /\ (Notification \/ TimerFire(o)
                              \/ ((Hop \/ Then \/ Catch \/ Finally)
                                   /\ Head(jobs).o = o /\ Head(jobs).by # "effect")))
            => ~isLoading'[o]
    ]_vars

\* the finally-reaction of a re-read the timer started is next, in a hook
\* whose isLoading is false
C31_Witness ==
  \E o \in Observers :
    /\ mounted[o] /\ ~isLoading[o]
    /\ HeadIs("read", "finally")
    /\ Head(jobs).o = o /\ Head(jobs).live /\ Head(jobs).by # "effect"

\* the read whose then-reaction is next went through an asynchronous
\* deserialize and took its item before the store changed; the atom holds
\* what a read of the key that started later made of the current item
StaleHead ==
  /\ HeadIs("read", "then")
  /\ hasWindow /\ ~denied
  /\ IsAsync(Head(jobs).codec)
  /\ Head(jobs).text # store[Head(jobs).key]
  /\ atom.defined /\ atom.map[Head(jobs).key] # NoEntry
  /\ AtomGet(atom, Head(jobs).key)
       = readResult(Head(jobs).codec, store[Head(jobs).key]).val
  /\ AtomGet(atom, Head(jobs).key) # readResult(Head(jobs).codec, Head(jobs).text).val

\* C32: whenever the then-reaction of a read runs, the atom afterwards holds
\* for the read's key the value that read decoded, whether or not the read
\* was the last one started and whether or not its item is still the one in
\* the store; the other keys of the atom are left alone.
C32_LastCompletedWins ==
  [][Then => LET j == Head(jobs) IN
             /\ AtomGet(atom', j.key) = readResult(j.codec, j.text).val
             /\ \A k \in Keys \ {j.key} : AtomGet(atom', k) = AtomGet(atom, k)
    ]_vars

\* the one hook there has been, with an asynchronous serializer and its key
\* and serializer unchanged, has had two reads in flight; the one started
\* last was applied first, and the then-reaction of the first is next
C32_Witness ==
  /\ StaleHead
  /\ steps <= 2
  /\ mounted["o1"] /\ ~mounted["o2"] /\ setValueRef["o1"] = 0
  /\ Head(jobs).o = "o1" /\ Head(jobs).live /\ Head(jobs).by = "effect"

\* a reaction of a read is next whose hook instance was unmounted since, or
\* is rendered with another key than the one the read took
LateHead(o) ==
  /\ jobs # <<>> /\ Head(jobs).op = "read" /\ Head(jobs).o = o
  /\ (~Head(jobs).live \/ Head(jobs).key # key[o])

\* C33: a reaction of a read whose hook has been unmounted or has changed to
\* another key leaves the store, the error and isLoading of every hook and
\* the atom's entries of the other keys as they are, and the hook returns
\* for the key it has now the value it returned before.
C33_Original ==
  [][\A o \in Observers :
       ((Hop \/ Then \/ Catch \/ Finally) /\ LateHead(o))
         => /\ store' = store
            /\ error' = error
            /\ isLoading' = isLoading
            /\ \A k \in Keys \ {Head(jobs).key} : AtomGet(atom', k) = AtomGet(atom, k)
            /\ key[o] # Head(jobs).key => ExposedValue(o)' = ExposedValue(o)
    ]_vars

\* a step in which a setValue call fails: serialize throws or its promise is
\* rejected, setItem throws, removeItem throws
SetValueFails ==
  \/ \E o \in Observers, v \in SetValues :
       SetValueCall(o, v) /\ hasWindow /\ ~IsAsync(serializer[o])
                          /\ ~Serialize(serializer[o], v).ok
  \/ Reject
  \/ WriteFails
  \/ \E o \in Observers : SetValueRemoveFails(o)

\* C34: a step in which a setValue call fails rejects the call and leaves
\* the atom, the error and isLoading of every hook, the store and every
\* timer as they are: no event is dispatched.
C34_FailedSetValueChangesNothing ==
  [][SetValueFails
       => /\ rejected' # NoError
          /\ atom' = atom
          /\ error' = error
          /\ isLoading' = isLoading
          /\ store' = store
          /\ timer' = timer /\ timeouts' = timeouts /\ burst' = burst
    ]_vars

\* a setValue call of a hook with the asynchronous serializer was rejected
\* because serialize failed; the hook has no error, is not loading, returns
\* the value it read, and no timer was set
C34_Witness ==
  \E o \in Observers :
    /\ hasWindow /\ ~denied /\ mounted[o] /\ IsAsync(serializer[o])
    /\ IsSetError(rejected, key[o])
    /\ error[o] = NoError /\ ~isLoading[o]
    /\ atom.defined /\ ExposedValue(o) # Undefined
    /\ burst[o] = 0
    /\ Quiescent

ForeignChange(k, t) ==
  /\ Idle /\ EnvStep
  /\ hasWindow /\ ~denied
  /\ store[k] # t
  /\ store' = [store EXCEPT ![k] = t]
  /\ timer' = Dispatched
  /\ timeouts' = Rescheduled
  /\ burst' = Counted
  /\ cause' = Caused("other")
  /\ lastSet' = [j \in Keys |-> NoCall]
  /\ UNCHANGED <<sample, hasWindow, denied, rejected, atom, mounted, key, serializer, setValueRef, initialValue,
                 error, isLoading, jobs, pending>>

SyncInit == Init /\ hasWindow /\ ~denied

SyncNext ==
  \/ \E o \in Observers, k \in Keys :
       \E d \in MountValues(o) : Mount(o, k, "json", d)
  \/ \E o \in Observers, k \in Keys : ChangeKey(o, k)
  \/ \E o \in Observers : Unmount(o)
  \/ \E o \in Observers : SetValueRemove(o)
  \/ \E o \in Observers, v \in SetValues : SetValueCall(o, v)
  \/ Hop
  \/ Then
  \/ Catch
  \/ Finally
  \/ Write
  \/ Elapse
  \/ \E o \in Observers : TimerFire(o)
  \/ \E k \in Keys, t \in ForeignTexts \cup {NoItem} : ForeignChange(k, t)

SyncSpec == SyncInit /\ [][SyncNext]_vars

\* C36: with the default serializer no read stays in flight when the
\* microtasks have run; a read whose then- or catch-reaction runs took the
\* item the store holds, or the timer of every hook of its key is pending;
\* and in every quiescent state the atom holds, for every key a mounted hook
\* has, what the serializer makes of the key's item: undefined when there is
\* no item or when deserialize throws.
C36_SyncCacheFollowsStore ==
  /\ [](pending = {})
  /\ [][(Then \/ Catch)
          => \/ Head(jobs).text = store[Head(jobs).key]
             \/ \A o \in Watching(Head(jobs).key) : timer[o] # "none"]_vars
  /\ [](Quiescent
          => \A k \in Keys :
               Watching(k) # {}
                 => AtomGet(atom, k) = readResult("json", store[k]).val)

\* both hooks are mounted on a key whose item other code has replaced by a
\* text that is no JSON after the hooks had read a value; their re-reads have
\* run and the atom holds undefined for the key
C36_Witness ==
  \E k \in Keys :
    /\ Quiescent /\ Watching(k) = Observers
    /\ store[k] = <<"invalid-json">>
    /\ \A o \in Observers : burst[o] >= 1 /\ error[o] # NoError
    /\ atom.defined /\ atom.map[k] = Undefined
    /\ AtomGet(atom, k) = readResult("json", store[k]).val

(***************************************************************************)
(* updateValue on its own: two reads of key "A" complete one after the     *)
(* other, with values a serializer of the consumer may return.             *)
(***************************************************************************)
\* what deserialize of some Serializer<T> may return: the values of JSON,
\* and values JSON has no text for
DecodedValues ==
  JsonScalars \cup {Undefined, NaN, Arr(<<Null>>), Arr(<<Undefined>>), Arr(<<NaN>>),
                    Obj(<<>>), Blob(Undefined), Blob(Null)}

GateInit ==
  /\ Loaded /\ hasWindow /\ ~denied
  /\ sample \in {[stage |-> "first", v |-> a, out |-> RetVal(b)] :
                    a \in DecodedValues, b \in DecodedValues}

\* updateValue(newValue) of the read that completes first
FirstUpdate ==
  /\ sample.stage = "first"
  /\ atom' = updateValue(atom, "A", sample.v)
  /\ sample' = [stage |-> "second", v |-> sample.out.val, out |-> RetVal(Undefined)]
  /\ UNCHANGED <<hasWindow, denied, rejected, store, hook, jobs, pending, steps, lastSet>>

\* updateValue(newValue) of the read that completes second
SecondUpdate ==
  /\ sample.stage = "second"
  /\ atom' = updateValue(atom, "A", sample.v)
  /\ sample' = [sample EXCEPT !.stage = "done"]
  /\ UNCHANGED <<hasWindow, denied, rejected, store, hook, jobs, pending, steps, lastSet>>

GateNext == FirstUpdate \/ SecondUpdate

GateSpec == GateInit /\ [][GateNext]_vars

\* C37: when updateValue is called with a value that differs from the one
\* the atom holds for the key, the atom holds the new value afterwards.
C37_Original ==
  [][((FirstUpdate \/ SecondUpdate) /\ AtomGet(atom, "A") # sample.v)
       => AtomGet(atom', "A") = sample.v]_vars

\* hook o has no error, is not loading, has no read in flight and no timer
\* pending, and returns what its own serializer makes of the item of its key
Settled(o) ==
  /\ mounted[o] /\ error[o] = NoError /\ ~isLoading[o]
  /\ timer[o] = "none"
  /\ \A i \in 1..Len(jobs) : ~(jobs[i].op = "read" /\ jobs[i].o = o /\ jobs[i].live)
  /\ \A j \in pending : ~(j.op = "read" /\ j.o = o /\ j.live)
  /\ readResult(serializer[o], getItem(key[o])).ok
  /\ ExposedValue(o)
       = Coalesce(readResult(serializer[o], getItem(key[o])).val, initialValue[o])

\* C38: when the catch-reaction of a read of one hook runs, another hook of
\* the same key that is settled on the value of the key's current item
\* returns the same value afterwards.
C38_Original ==
  [][\A o1, o2 \in Observers :
       (/\ Catch
        /\ o1 # o2
        /\ Head(jobs).o = o1 /\ Head(jobs).live
        /\ mounted[o1] /\ key[o1] = Head(jobs).key
        /\ key[o2] = Head(jobs).key
        /\ Settled(o2))
         => ExposedValue(o2)' = ExposedValue(o2)
    ]_vars

(***************************************************************************)
(* Liveness of the debounced re-read. Events may reach the window without  *)
(* end; the other steps of the environment stay bounded. Microtasks run,   *)
(* promises settle, time passes and a timer that is due fires.             *)
(***************************************************************************)
\* the notifications counted in one burst
MaxBurst == 2

\* a "storage" or "local-storage" event reaches the window, any number of
\* times
Renotify ==
  /\ Idle
  /\ hasWindow
  /\ \E o \in Observers : mounted[o]
  /\ timer' = Dispatched
  /\ timeouts' = Rescheduled
  /\ burst' = [o \in Observers |-> IF Counted[o] > MaxBurst THEN MaxBurst ELSE Counted[o]]
  /\ cause' = Caused("other")
  /\ UNCHANGED <<sample, hasWindow, denied, rejected, store, atom, mounted, key, serializer, setValueRef, initialValue,
                 error, isLoading, jobs, pending, steps, lastSet>>

Microtask == Hop \/ Then \/ Catch \/ Finally

\* a window whose store works
LiveInit == Init /\ hasWindow /\ ~denied

\* one hook is rendered: each hook has its own timer
LiveHooks == {"o1"}

LiveNext ==
  \/ \E o \in LiveHooks, k \in Keys, c \in Codecs :
       \E d \in MountValues(o) : Mount(o, k, c, d)
  \/ \E o \in Observers, k \in Keys : ChangeKey(o, k)
  \/ \E o \in Observers : Unmount(o)
  \/ Renotify
  \/ Microtask
  \/ Elapse
  \/ \E o \in Observers : TimerFire(o)
  \/ \E j \in pending : AsyncSettle(j)

Fairness ==
  /\ WF_vars(Microtask)
  /\ WF_vars(Elapse)
  /\ \A o \in Observers : WF_vars(TimerFire(o))
  /\ WF_vars(\E j \in pending : AsyncSettle(j))

LiveSpec == LiveInit /\ [][LiveNext]_vars /\ Fairness

\* the timer of hook o is pending: a notification has reached the hook and
\* its re-read has not started
Notified(o) == mounted[o] /\ timer[o] # "none"

\* no timer of hook o is pending and a read of its current key, with its
\* current serializer, is under way; or the hook is unmounted
Rereading(o) ==
  \/ ~mounted[o]
  \/ /\ timer[o] = "none"
     /\ \E j \in pending \cup {jobs[i] : i \in 1..Len(jobs)} :
          /\ j.op = "read" /\ j.o = o /\ j.live
          /\ j.key = key[o] /\ j.codec = serializer[o]

\* C39: every notification that reaches a mounted hook is followed by a
\* re-read of the hook's key or by its unmount, however many notifications
\* follow.
C39_Original == \A o \in Observers : Notified(o) ~> Rereading(o)

\* C39 (amended): if from some point on no further event reaches the window,
\* every notification that reached a mounted hook is followed by a re-read
\* of the hook's current key, started when no timer of the hook is pending
\* any more, or by the hook's unmount. Events that keep arriving before the
\* timer's callback has run postpone the re-read without end.
C39_RereadWhenEventsCease ==
  (<>[][~Renotify]_vars) => \A o \in Observers : Notified(o) ~> Rereading(o)

\* the timer of a hook has fired after a burst of notifications and the
\* re-read it started is queued
C39_Witness ==
  \E o \in Observers :
    /\ mounted[o] /\ burst[o] = MaxBurst /\ timer[o] = "none"
    /\ jobs # <<>> /\ Head(jobs).op = "read" /\ Head(jobs).o = o
    /\ Head(jobs).live /\ Head(jobs).by = "other" /\ Head(jobs).key = key[o]

====
